---- MODULE Spec2Model ----
(***************************************************************************)
(* The weather application's front end.  The API client                    *)
(* (WeatherAPIClient): the session token kept in memory and in             *)
(* localStorage, the requests each method issues, and the way each         *)
(* response settles the call.  Around it: the pages that verify the stored *)
(* token, the weather-request form, the geolocation adapter and the export *)
(* formatters, each with a specification of its own.                       *)
(*                                                                         *)
(* A JavaScript value of type `string | null` is a sequence of length at   *)
(* most one: NULL is <<>> and the string s is <<s>>.                       *)
(*                                                                         *)
(* One step of the model is one run-to-completion turn of the event loop:  *)
(* a synchronous call, the synchronous prefix of an async method up to its *)
(* fetch, or the continuation that runs once a response (and its body) is  *)
(* available.  Reading the body (response.json()) touches no client state, *)
(* so it is folded into the continuation.                                  *)
(***************************************************************************)
EXTENDS Integers, Sequences, FiniteSets, TLC

VARIABLES
    token,      \* WeatherAPIClient.token (in memory)
    storage,    \* localStorage["auth_token"]; NULL when the key is absent
    calls,      \* the async method calls in progress, by slot
    ret,        \* what the latest step handed to its caller
    page,       \* the page running checkAuth (weather-data page, Home)
    form,       \* the WeatherRequestForm component
    geo,        \* a getCurrentPosition() call and the coordinates displayed
    doc,        \* the export formatters: the record, the document written
    list,       \* the WeatherRequestsList component and the stored requests
    home        \* the weather page (Home): its state and lookups in flight

vars == <<token, storage, calls, ret, page, form, geo, doc, list, home>>

\* what the API client leaves alone
uiVars == <<page, form, geo, doc, list, home>>

----------------------------------------------------------------------------
(* Bounds and input domains *)

MaxCalls == 1                       \* async calls in progress at one time

Slots == 1..MaxCalls

NULL == <<>>
Str(s) == <<s>>

Tokens == {"", "t1", "t2"}          \* arguments handed to setToken
ServerTokens == {"t1", "t2"}        \* tokens the backend issues
TokenArgs == {NULL} \cup {Str(t) : t \in Tokens}

\* JavaScript truthiness of a `string | null`
Truthy(v) == v # NULL /\ v[1] # ""

----------------------------------------------------------------------------
(* Methods *)

LookupMethods ==
    {"searchLocation", "getCurrentWeather", "getForecast",
     "getHourlyForecast", "getCompleteWeather"}
ValidationMethods == {"validateLocation", "validateDateRange"}
CrudMethods ==
    {"createWeatherRequest", "getWeatherRequests", "getWeatherRequestById",
     "updateWeatherRequest", "deleteWeatherRequest"}
CredentialMethods == {"signup", "login"}
PlainMethods == LookupMethods \cup ValidationMethods
BearerMethods == CrudMethods \cup {"getCurrentUser"}
\* methods of the shape: one fetch, then handleResponse
SingleMethods == PlainMethods \cup BearerMethods \cup CredentialMethods
AsyncMethods == SingleMethods \cup {"logout", "getWeatherByCoordinates"}

BaseUrl == "http://localhost:8000/api/weather"

\* The URL each method builds, for one fixed choice of its arguments.
Path(m) ==
    CASE m = "searchLocation"        -> "/search?q=Paris"
      [] m = "getCurrentWeather"     -> "/current?lat=1&lon=2"
      [] m = "getForecast"           -> "/forecast?lat=1&lon=2&days=7"
      [] m = "getHourlyForecast"     -> "/hourly?lat=1&lon=2&hours=24"
      [] m = "getCompleteWeather"    -> "/complete?q=Paris&days=7"
      [] m = "validateLocation"      -> "/validate-location?location_name=Paris"
      [] m = "validateDateRange"     ->
             "/validate-dates?start_date=2025-01-01&end_date=2025-01-02"
      [] m = "signup"                -> "/auth/signup"
      [] m = "login"                 -> "/auth/login"
      [] m = "logout"                -> "/auth/logout"
      [] m = "getCurrentUser"        -> "/auth/me"
      [] m = "createWeatherRequest"  -> "/weather-requests"
      [] m = "getWeatherRequests"    -> "/weather-requests?limit=50&offset=0"
      [] m = "getWeatherRequestById" -> "/weather-requests/1"
      [] m = "updateWeatherRequest"  -> "/weather-requests/1"
      [] m = "deleteWeatherRequest"  -> "/weather-requests/1"

Verb(m) ==
    CASE m \in {"signup", "login", "logout", "createWeatherRequest"} -> "POST"
      [] m = "updateWeatherRequest" -> "PUT"
      [] m = "deleteWeatherRequest" -> "DELETE"
      [] OTHER -> "GET"

----------------------------------------------------------------------------
(* Headers and requests.  A header set is a set of <<name, value>> pairs. *)

JsonHeaders == {<<"Content-Type", "application/json">>}
NoHeaders == {}

HasHeader(h, name) == \E p \in h : p[1] = name

\* the token sent bare, without the "Bearer " scheme
getAuthHeaders_noScheme(tok) ==
    IF Truthy(tok)
    THEN JsonHeaders \cup {<<"Authorization", tok[1]>>}
    ELSE JsonHeaders

getAuthHeaders(tok) ==
    IF Truthy(tok)
    THEN JsonHeaders \cup {<<"Authorization", "Bearer " \o tok[1]>>}
    ELSE JsonHeaders

\* a lookup passing { headers: this.getAuthHeaders() } like the CRUD methods
PlainHeaders_auth(tok) == getAuthHeaders(tok)

\* fetch(url) with no init object: no headers of the client's own
PlainHeaders(tok) == NoHeaders

\* signup and login send the literal { "Content-Type": "application/json" }
CredentialHeaders(tok) == JsonHeaders

HeadersFor(m, tok) ==
    IF m \in PlainMethods THEN PlainHeaders(tok)
    ELSE IF m \in CredentialMethods THEN CredentialHeaders(tok)
    ELSE getAuthHeaders(tok)

Request(m, tok) ==
    [verb |-> Verb(m), url |-> BaseUrl \o Path(m), headers |-> HeadersFor(m, tok)]

----------------------------------------------------------------------------
(* Responses *)

Statuses == {200, 400, 500}
Ok(resp) == resp.kind = "http" /\ resp.status >= 200 /\ resp.status <= 299

InvalidDateRange == "Invalid date range"
GenericMessage == "An error occurred"
FailedToFetch == "Failed to fetch"                  \* fetch() rejecting
JsonSyntaxError == "Unexpected token in JSON"       \* response.json() rejecting
NullTypeError == "Cannot read properties of null"   \* null.message

\* body.json: "object" (a JSON object), "null" (the JSON value null),
\* "invalid" (text that is no JSON).  error, message: the fields of an
\* ApiError; token: the field of an AuthResponse.
ObjectBody(err, msg, tok) ==
    [json |-> "object", error |-> err, message |-> msg, token |-> tok]
NullBody == [json |-> "null", error |-> NULL, message |-> NULL, token |-> NULL]
InvalidBody == [json |-> "invalid", error |-> NULL, message |-> NULL, token |-> NULL]

BadRequest == "bad_request"
ErrorBody(msg) == ObjectBody(Str(BadRequest), msg, NULL)

ErrorBodies ==
    {ErrorBody(msg) : msg \in {NULL, Str(""), Str(InvalidDateRange)}}
        \cup {NullBody, InvalidBody}

SuccessBodies(m) ==
    (IF m \in CredentialMethods
     THEN {ObjectBody(NULL, NULL, Str(t)) : t \in ServerTokens}
     ELSE {ObjectBody(NULL, NULL, NULL)})
        \cup {InvalidBody}

NetworkFailure == [kind |-> "reject", status |-> 0, body |-> InvalidBody]
Http(s, b) == [kind |-> "http", status |-> s, body |-> b]

Responses(m) ==
    {NetworkFailure}
        \cup {Http(s, b) : s \in {s \in Statuses : s >= 200 /\ s <= 299},
                           b \in SuccessBodies(m)}
        \cup {Http(s, b) : s \in {s \in Statuses : s < 200 \/ s > 299},
                           b \in ErrorBodies}

----------------------------------------------------------------------------
(* Outcomes of a promise *)

Resolved(v) == [outcome |-> "resolved", error |-> NULL, value |-> v]
Rejected(msg) == [outcome |-> "rejected", error |-> Str(msg), value |-> <<>>]

\* throwing new Error(error.error): the error code instead of the message
handleResponse_errorCode(resp) ==
    IF ~Ok(resp)
    THEN IF resp.body.json = "invalid" THEN Rejected(JsonSyntaxError)
         ELSE IF resp.body.json = "null" THEN Rejected(NullTypeError)
         ELSE IF Truthy(resp.body.error)
              THEN Rejected(resp.body.error[1])
              ELSE Rejected(GenericMessage)
    ELSE IF resp.body.json = "invalid" THEN Rejected(JsonSyntaxError)
         ELSE Resolved(<<resp.body>>)

\* falling back to a message made from the status instead of the generic one
handleResponse_statusFallback(resp) ==
    IF ~Ok(resp)
    THEN IF resp.body.json = "invalid" THEN Rejected(JsonSyntaxError)
         ELSE IF resp.body.json = "null" THEN Rejected(NullTypeError)
         ELSE IF Truthy(resp.body.message)
              THEN Rejected(resp.body.message[1])
              ELSE Rejected(IF resp.status >= 500 THEN "Server error" ELSE "Request failed")
    ELSE IF resp.body.json = "invalid" THEN Rejected(JsonSyntaxError)
         ELSE Resolved(<<resp.body>>)

handleResponse(resp) ==
    IF ~Ok(resp)
    THEN IF resp.body.json = "invalid" THEN Rejected(JsonSyntaxError)
         ELSE IF resp.body.json = "null" THEN Rejected(NullTypeError)
         ELSE IF Truthy(resp.body.message)
              THEN Rejected(resp.body.message[1])
              ELSE Rejected(GenericMessage)
    ELSE IF resp.body.json = "invalid" THEN Rejected(JsonSyntaxError)
         ELSE Resolved(<<resp.body>>)

\* `const response = await fetch(...); return this.handleResponse(response)`
FetchThenHandle(resp) ==
    IF resp.kind = "reject" THEN Rejected(FailedToFetch) ELSE handleResponse(resp)

----------------------------------------------------------------------------
(* Session store *)

\* setToken writing `token || null` to memory
setToken_normalised(tok) ==
    [token |-> IF Truthy(tok) THEN tok ELSE NULL,
     storage |-> IF Truthy(tok) THEN tok ELSE NULL]

\* setToken(tok): the session it leaves (setItem and removeItem overwrite
\* whatever the key held)
setToken(tok) ==
    [token |-> tok, storage |-> IF Truthy(tok) THEN tok ELSE NULL]

getToken == token

isAuthenticated == token # NULL

\* The constructor, in a browser: the token is read from localStorage
constructor(st) == [token |-> st, storage |-> st]

----------------------------------------------------------------------------
(* Calls in progress and what a step hands back *)

\* nreq: the requests the call has issued so far; legs: the state of each;
\* delivered: how often its promise has settled towards the caller
Idle == [method |-> "none", nreq |-> 0, legs |-> <<>>, delivered |-> 0]

InFlight(m, n) ==
    [method |-> m, nreq |-> n,
     legs |-> [i \in 1..n |-> "inflight"], delivered |-> 0]

\* sent: the requests the step put on the wire; resp: the response it consumed;
\* nreq: the requests the call has issued in all
NoRet ==
    [call |-> 0, method |-> "none", arg |-> NULL, outcome |-> "none",
     error |-> NULL, value |-> <<>>, sent |-> <<>>, resp |-> <<>>, nreq |-> 0]

\* a synchronous method returned
Returned(m, arg) == [NoRet EXCEPT !.method = m, !.arg = arg, !.outcome = "returned"]

\* an async method ran up to its first await and returned a pending promise
Pending(c, m, reqs) ==
    [NoRet EXCEPT !.call = c, !.method = m, !.outcome = "pending",
                  !.sent = reqs, !.nreq = Len(reqs)]

\* the promise of the call in slot c settled with `out`
Settled(c, m, out, resp, n) ==
    [NoRet EXCEPT !.call = c, !.method = m, !.outcome = out.outcome,
                  !.error = out.error, !.value = out.value,
                  !.resp = resp, !.nreq = n]

\* a response was consumed without settling the promise: "waiting" for the
\* other leg, or "ignored" because the promise had settled before
Unsettled(c, m, how, resp, n) ==
    [NoRet EXCEPT !.call = c, !.method = m, !.outcome = how,
                  !.resp = resp, !.nreq = n]

FreeSlot(c) == calls[c] = Idle /\ \A d \in DOMAIN calls : d < c => calls[d] # Idle

----------------------------------------------------------------------------
(* Method bodies *)

\* one retry: a failed first request is sent again instead of failing the call
SingleStep_retry(m, n, resp) ==
    [done |-> ~(FetchThenHandle(resp).outcome = "rejected" /\ n < 2),
     out |-> FetchThenHandle(resp)]

\* A method of the shape `fetch; handleResponse`, when the response to its
\* request arrives: whether the call is over (it is: nothing is re-sent) and
\* its outcome.
SingleStep(m, n, resp) ==
    [done |-> TRUE, out |-> FetchThenHandle(resp)]

\* a failed signup or login dropping the token held before it
SessionAfter_clearOnFailure(m, out, tok, st) ==
    IF m \in CredentialMethods
    THEN IF out.outcome = "resolved" THEN setToken(out.value[1].token)
         ELSE setToken(NULL)
    ELSE [token |-> tok, storage |-> st]

\* returning data without storing its token
SessionAfter_noStore(m, out, tok, st) == [token |-> tok, storage |-> st]

\* signup / login after handleResponse: `this.setToken(data.token)`
SessionAfter(m, out, tok, st) ==
    IF m \in CredentialMethods /\ out.outcome = "resolved"
    THEN setToken(out.value[1].token)
    ELSE [token |-> tok, storage |-> st]

\* logout after `await fetch(...)`: a rejected fetch throws out of logout
\* before setToken(null); any response, whatever its status, is ignored
LogoutAfterFetch(resp, tok, st) ==
    IF resp.kind = "reject"
    THEN [out |-> Rejected(FailedToFetch), session |-> [token |-> tok, storage |-> st]]
    ELSE [out |-> Resolved(<<>>), session |-> setToken(NULL)]

\* Promise.allSettled: waits for every leg and resolves whatever they did
JoinLegs_allSettled(legs) ==
    IF \E i \in 1..Len(legs) : legs[i] = "inflight" THEN "pending" ELSE "resolved"

\* Promise.all over the two legs of getWeatherByCoordinates
JoinLegs(legs) ==
    IF \E i \in 1..Len(legs) : legs[i] = "failed" THEN "rejected"
    ELSE IF \A i \in 1..Len(legs) : legs[i] = "ok" THEN "resolved"
    ELSE "pending"

LegMethods == <<"getCurrentWeather", "getForecast">>
LegNames == <<"current", "forecast">>

\* { current, forecast: forecastData.forecast }: the parts present
CombinedValue(legs) ==
    SelectSeq(LegNames, LAMBDA n : \E i \in 1..Len(legs) : LegNames[i] = n /\ legs[i] = "ok")

----------------------------------------------------------------------------
(* Actions *)

\* the parts of the front end a specification does not exercise
NoPage ==
    [name |-> "none", pc |-> "none", call |-> 0, route |-> NULL,
     isAuthenticated |-> FALSE, isCheckingAuth |-> FALSE]
NoForm == [mounted |-> FALSE]
NoGeo == [pc |-> "none"]
NoDoc == [format |-> "none"]
NoList == [mounted |-> FALSE]
NoHome == [mounted |-> FALSE]

\* the client as constructed over what localStorage held, with room for
\* `slots` calls
ClientInit(slots) ==
    /\ \E st \in {NULL} \cup {Str(t) : t \in ServerTokens} :
          /\ token = constructor(st).token
          /\ storage = constructor(st).storage
    /\ calls = [c \in slots |-> Idle]
    /\ ret = NoRet

Init ==
    /\ ClientInit(Slots)
    /\ page = NoPage
    /\ list = NoList
    /\ home = NoHome
    /\ form = NoForm
    /\ geo = NoGeo
    /\ doc = NoDoc

\* weatherAPI.setToken(t)
SetToken(t) ==
    /\ token' = setToken(t).token
    /\ storage' = setToken(t).storage
    /\ ret' = Returned("setToken", t)
    /\ UNCHANGED <<calls, uiVars>>

\* a page load: in-flight work is dropped and the client is constructed anew
Reload ==
    /\ token' = constructor(storage).token
    /\ storage' = constructor(storage).storage
    /\ calls' = [c \in DOMAIN calls |-> Idle]
    /\ ret' = Returned("constructor", NULL)
    /\ UNCHANGED uiVars

StartSingle(c, m) ==
    /\ FreeSlot(c)
    /\ calls' = [calls EXCEPT ![c] = InFlight(m, 1)]
    /\ ret' = Pending(c, m, <<Request(m, token)>>)
    /\ UNCHANGED <<token, storage, uiVars>>

RespondSingle(c, resp) ==
    LET m == calls[c].method
        s == SingleStep(m, calls[c].nreq, resp)
        after == SessionAfter(m, s.out, token, storage)
    IN  /\ m \in SingleMethods
        /\ resp \in Responses(m)
        /\ UNCHANGED uiVars
        /\ IF s.done
           THEN /\ calls' = [calls EXCEPT ![c] = Idle]
                /\ ret' = Settled(c, m, s.out, <<resp>>, calls[c].nreq)
                /\ token' = after.token
                /\ storage' = after.storage
           ELSE /\ calls' = [calls EXCEPT ![c].nreq = @ + 1]
                /\ ret' = [NoRet EXCEPT !.call = c, !.method = m,
                                        !.sent = <<Request(m, token)>>,
                                        !.nreq = calls[c].nreq + 1]
                /\ UNCHANGED <<token, storage>>

\* logout() with a token: the POST is issued and awaited
StartLogoutFetch(c) ==
    /\ FreeSlot(c)
    /\ Truthy(token)
    /\ calls' = [calls EXCEPT ![c] = InFlight("logout", 1)]
    /\ ret' = Pending(c, "logout", <<Request("logout", token)>>)
    /\ UNCHANGED <<token, storage, uiVars>>

\* logout() without a token: no request, setToken(null) at once
LogoutNoFetch ==
    /\ ~Truthy(token)
    /\ token' = setToken(NULL).token
    /\ storage' = setToken(NULL).storage
    /\ ret' = Settled(0, "logout", Resolved(<<>>), <<>>, 0)
    /\ UNCHANGED <<calls, uiVars>>

RespondLogout(c, resp) ==
    LET r == LogoutAfterFetch(resp, token, storage)
    IN  /\ calls[c].method = "logout"
        /\ resp \in Responses("logout")
        /\ calls' = [calls EXCEPT ![c] = Idle]
        /\ ret' = Settled(c, "logout", r.out, <<resp>>, calls[c].nreq)
        /\ token' = r.session.token
        /\ storage' = r.session.storage
        /\ UNCHANGED uiVars

\* getWeatherByCoordinates: both legs run up to their fetch
StartByCoordinates(c) ==
    /\ FreeSlot(c)
    /\ calls' = [calls EXCEPT ![c] = InFlight("getWeatherByCoordinates", 2)]
    /\ ret' = Pending(c, "getWeatherByCoordinates",
                      <<Request(LegMethods[1], token), Request(LegMethods[2], token)>>)
    /\ UNCHANGED <<token, storage, uiVars>>

\* the response to leg i arrives
RespondLeg(c, i, resp) ==
    LET call == calls[c]
        out == FetchThenHandle(resp)
        legs == [call.legs EXCEPT ![i] = IF out.outcome = "resolved" THEN "ok" ELSE "failed"]
        join == JoinLegs(legs)
        settles == call.delivered = 0 /\ join # "pending"
        over == \A j \in 1..Len(legs) : legs[j] # "inflight"
    IN  /\ call.method = "getWeatherByCoordinates"
        /\ i \in 1..Len(call.legs)
        /\ call.legs[i] = "inflight"
        /\ resp \in Responses(LegMethods[i])
        /\ calls' = [calls EXCEPT ![c] =
                IF over THEN Idle
                ELSE [call EXCEPT !.legs = legs,
                                  !.delivered = IF settles THEN 1 ELSE call.delivered]]
        /\ ret' = IF settles
                  THEN Settled(c, call.method,
                               IF join = "resolved" THEN Resolved(CombinedValue(legs)) ELSE out,
                               <<resp>>, call.nreq)
                  ELSE Unsettled(c, call.method,
                                 IF call.delivered = 0 THEN "waiting" ELSE "ignored",
                                 <<resp>>, call.nreq)
        /\ UNCHANGED <<token, storage, uiVars>>

Next ==
    \/ \E t \in TokenArgs : SetToken(t)
    \/ Reload
    \/ \E c \in Slots, m \in SingleMethods : StartSingle(c, m)
    \/ \E c \in Slots : \E resp \in Responses(calls[c].method) : RespondSingle(c, resp)
    \/ \E c \in Slots : StartLogoutFetch(c)
    \/ LogoutNoFetch
    \/ \E c \in Slots : \E resp \in Responses("logout") : RespondLogout(c, resp)
    \/ \E c \in Slots : StartByCoordinates(c)
    \/ \E c \in Slots, i \in 1..2 : \E resp \in Responses(LegMethods[i]) : RespondLeg(c, i, resp)

Spec == Init /\ [][Next]_vars

----------------------------------------------------------------------------
(* Properties *)

IsSettled(r) == r.outcome \in {"resolved", "rejected"}

\* C1: every logout() call ends resolved (it never throws to its caller)
\* with the in-memory token null and the 'auth_token' key removed, also when
\* the POST /auth/logout fetch rejects.
C1_LogoutClearsAndNeverThrows ==
    (ret.method = "logout" /\ IsSettled(ret)) =>
        /\ ret.outcome = "resolved"
        /\ token = NULL
        /\ storage = NULL

\* C2: the 'auth_token' key is absent exactly when the in-memory token is
\* null, and otherwise holds exactly the in-memory token.
C2_TokenAndStorageAgree ==
    /\ (storage = NULL) <=> (token = NULL)
    /\ token # NULL => storage = token

\* C3: right after setToken(T), getToken() is T; right after setToken(null),
\* isAuthenticated() is false.
C3_SetThenGet ==
    ret.method = "setToken" =>
        /\ getToken = ret.arg
        /\ ret.arg = NULL => ~isAuthenticated

\* setToken("") has just returned: memory holds "", the key is removed
C3_Witness ==
    /\ ret.method = "setToken"
    /\ ret.arg = Str("")
    /\ getToken = Str("")
    /\ storage = NULL

\* the response the latest step consumed, if any
Consumed(r) == ret.resp = <<r>>

\* a non-2xx response with body {"error":"bad_request","message":"Invalid date range"}
IsInvalidDateRange(r) ==
    r.kind = "http" /\ ~Ok(r) /\ r.body = ErrorBody(Str(InvalidDateRange))

\* C4 as stated: a non-2xx response with that body makes every API client
\* method that receives it, logout included, fail with the message
\* "Invalid date range".
C4_EveryMethodFails ==
    \A r \in Responses(ret.method) :
        (Consumed(r) /\ IsInvalidDateRange(r)) =>
            (ret.outcome = "rejected" /\ ret.error = Str(InvalidDateRange))

\* C4 amended: that response makes every method which hands its response to
\* handleResponse fail with the message "Invalid date range"
\* (getWeatherByCoordinates unless its promise was already rejected by the
\* other leg, whose failure stands); logout ignores the response, clears the
\* session and resolves.
C4_HandledMethodsFail ==
    \A r \in Responses(ret.method) :
        (Consumed(r) /\ IsInvalidDateRange(r)) =>
            CASE ret.method = "logout" ->
                    ret.outcome = "resolved" /\ token = NULL /\ storage = NULL
              [] ret.method = "getWeatherByCoordinates" ->
                    \/ ret.outcome = "rejected" /\ ret.error = Str(InvalidDateRange)
                    \/ ret.outcome = "ignored"
              [] OTHER ->
                    ret.outcome = "rejected" /\ ret.error = Str(InvalidDateRange)

\* a CRUD call has just failed on a 500 response carrying that body
C4_Witness ==
    /\ ret.method = "deleteWeatherRequest"
    /\ Consumed(Http(500, ErrorBody(Str(InvalidDateRange))))
    /\ ret.outcome = "rejected"
    /\ ret.error = Str(InvalidDateRange)

IsFailure(r) == FetchThenHandle(r).outcome = "rejected"

\* C6: getWeatherByCoordinates issues the current-weather and the forecast
\* request in the step that returns its promise; the promise resolves only
\* with both parts, after both legs succeeded; as soon as one leg fails the
\* promise is rejected, and a failed leg never leads to a resolved result.
C6_AllOrNothingJoin ==
    /\ (ret.method = "getWeatherByCoordinates" /\ ret.outcome = "pending") =>
            /\ ret.sent = <<Request("getCurrentWeather", token),
                            Request("getForecast", token)>>
            /\ calls[ret.call].legs = <<"inflight", "inflight">>
    /\ (ret.method = "getWeatherByCoordinates" /\ ret.outcome = "resolved") =>
            /\ ret.value = <<"current", "forecast">>
            /\ calls[ret.call] = Idle
            /\ \E r \in Responses("getForecast") : Consumed(r) /\ Ok(r)
    /\ \A r \in Responses("getForecast") :
            (ret.method = "getWeatherByCoordinates" /\ Consumed(r) /\ IsFailure(r)) =>
                ret.outcome \in {"rejected", "ignored"}
    /\ \A c \in Slots :
            calls[c].method = "getWeatherByCoordinates" =>
                /\ (calls[c].delivered = 1) <=>
                        (\E i \in 1..2 : calls[c].legs[i] = "failed")
                /\ \E i \in 1..2 : calls[c].legs[i] = "inflight"

\* the forecast leg has failed while the current-weather request is still
\* in flight, and the call is already rejected
C6_Witness ==
    /\ ret.method = "getWeatherByCoordinates"
    /\ ret.outcome = "rejected"
    /\ calls[ret.call].legs = <<"inflight", "failed">>
    /\ calls[ret.call].delivered = 1

BearerHeader(tok) == <<"Authorization", "Bearer " \o tok[1]>>

\* C7 as stated: every CRUD request carries 'Authorization: Bearer <token>'
\* with the session's token at the moment of the call; none leaves without it.
C7_EveryCrudRequestCarriesBearer ==
    (ret.method \in CrudMethods /\ ret.outcome = "pending") =>
        /\ token # NULL
        /\ BearerHeader(token) \in ret.sent[1].headers

\* C7 amended: a CRUD request issued while the session holds a non-empty
\* token carries exactly one Authorization header, 'Bearer <that token>';
\* one issued while the token is null or empty is still sent, with no
\* Authorization header.
C7_CrudBearerWhenTokenHeld ==
    (ret.method \in CrudMethods /\ ret.outcome = "pending") =>
        /\ Len(ret.sent) = 1
        /\ IF Truthy(token)
           THEN \A h \in ret.sent[1].headers :
                    h[1] = "Authorization" => h = BearerHeader(token)
                /\ BearerHeader(token) \in ret.sent[1].headers
           ELSE ~HasHeader(ret.sent[1].headers, "Authorization")

\* updateWeatherRequest has just been issued under the token "t1"
C7_Witness ==
    /\ ret.method = "updateWeatherRequest"
    /\ ret.outcome = "pending"
    /\ token = Str("t1")
    /\ <<"Authorization", "Bearer t1">> \in ret.sent[1].headers

\* C8: no request of a lookup or validation method (nor of the two legs of
\* getWeatherByCoordinates) carries an Authorization header, and the request
\* is the one the same call issues when the session holds no token.
C8_LookupsCarryNoAuthorization ==
    /\ (ret.method \in PlainMethods /\ ret.outcome = "pending") =>
            /\ Len(ret.sent) = 1
            /\ ~HasHeader(ret.sent[1].headers, "Authorization")
            /\ ret.sent[1] = Request(ret.method, NULL)
    /\ (ret.method = "getWeatherByCoordinates" /\ ret.outcome = "pending") =>
            \A i \in 1..Len(ret.sent) :
                /\ ~HasHeader(ret.sent[i].headers, "Authorization")
                /\ ret.sent[i] = Request(LegMethods[i], NULL)

\* searchLocation has just been issued while the session holds "t1"
C8_Witness ==
    /\ ret.method = "searchLocation"
    /\ ret.outcome = "pending"
    /\ token = Str("t1")
    /\ ret.sent[1].headers = {}

ExpectedRequests(m) == IF m = "getWeatherByCoordinates" THEN 2 ELSE 1

C9_State ==
    /\ \A c \in Slots :
            calls[c] # Idle =>
                /\ calls[c].nreq = ExpectedRequests(calls[c].method)
                /\ calls[c].delivered <= 1
    /\ ret.sent # <<>> =>
            /\ ret.outcome = "pending"
            /\ Len(ret.sent) = ExpectedRequests(ret.method)
    /\ IsSettled(ret) =>
            ret.nreq = IF ret.method = "logout" /\ ret.call = 0
                       THEN 0 ELSE ExpectedRequests(ret.method)
    /\ \A r \in Responses(ret.method) :
            (Consumed(r) /\ IsFailure(r) /\ ret.method # "logout") =>
                \/ ret.outcome = "rejected" /\ ret.error = FetchThenHandle(r).error
                \/ ret.outcome = "ignored"

C9_Step ==
    \A c \in Slots :
        calls[c].delivered = 1 => ~(ret'.call = c /\ IsSettled(ret'))

----------------------------------------------------------------------------
(* Pages that verify the stored token: the weather-data page and Home *)

PageNames == {"weather-data", "home"}

\* the component as first rendered: useState(false), useState(true); Home
\* keeps no state of its own
Mounted(n) ==
    [name |-> n, pc |-> "mounted", call |-> 0, route |-> NULL,
     isAuthenticated |-> FALSE, isCheckingAuth |-> (n = "weather-data")]

\* what the component returns from its render
Render(p) ==
    IF p.name = "home" THEN "landing"
    ELSE IF p.isCheckingAuth THEN "spinner"
    ELSE IF ~p.isAuthenticated THEN "nothing"
    ELSE "protected"

\* checkAuth when no token is held: the weather-data page redirects and
\* returns before its try/finally, Home does nothing
checkAuthNoToken(p) ==
    [p EXCEPT !.pc = "done",
              !.route = IF p.name = "weather-data" THEN Str("/auth") ELSE NULL]

\* a catch block that trusts the stored token
checkAuthSettled_trusting(p, out) ==
    [page |-> [p EXCEPT !.pc = "done", !.isCheckingAuth = FALSE,
                        !.isAuthenticated = (p.name = "weather-data")],
     clear |-> FALSE]

\* checkAuth after `await weatherAPI.getCurrentUser()`: the component it
\* leaves and whether setToken(null) is called
checkAuthSettled(p, out) ==
    IF out.outcome = "resolved"
    THEN [page |-> [p EXCEPT !.pc = "done", !.isCheckingAuth = FALSE,
                             !.isAuthenticated = (p.name = "weather-data"),
                             !.route = IF p.name = "home"
                                       THEN Str("/weather-data") ELSE NULL],
          clear |-> FALSE]
    ELSE [page |-> [p EXCEPT !.pc = "done", !.isCheckingAuth = FALSE,
                             !.route = IF p.name = "weather-data"
                                       THEN Str("/auth") ELSE NULL],
          clear |-> TRUE]

\* the page is mounted and its effect runs checkAuth up to the first await
Mount(n) ==
    /\ page.name = "none" \/ page.pc = "done"
    /\ IF isAuthenticated
       THEN \E c \in DOMAIN calls :
              /\ FreeSlot(c)
              /\ calls' = [calls EXCEPT ![c] = InFlight("getCurrentUser", 1)]
              /\ ret' = Pending(c, "getCurrentUser",
                                <<Request("getCurrentUser", token)>>)
              /\ page' = [Mounted(n) EXCEPT !.pc = "checking", !.call = c]
       ELSE /\ page' = checkAuthNoToken(Mounted(n))
            /\ ret' = Returned("isAuthenticated", NULL)
            /\ UNCHANGED calls
    /\ UNCHANGED <<token, storage, form, geo, doc, list, home>>

\* the response to the page's getCurrentUser arrives and checkAuth runs on
CheckAuthResponds(resp) ==
    LET c == page.call
        out == SingleStep("getCurrentUser", calls[c].nreq, resp).out
        after == checkAuthSettled(page, out)
    IN  /\ page.name \in PageNames
        /\ page.pc = "checking"
        /\ resp \in Responses("getCurrentUser")
        /\ calls' = [calls EXCEPT ![c] = Idle]
        /\ ret' = Settled(c, "getCurrentUser", out, <<resp>>, calls[c].nreq)
        /\ page' = after.page
        /\ token' = IF after.clear THEN setToken(NULL).token ELSE token
        /\ storage' = IF after.clear THEN setToken(NULL).storage ELSE storage
        /\ UNCHANGED <<form, geo, doc, list, home>>

\* the Navbar, rendered by Home and inside the protected content, offers
\* Logout when isAuthenticated() held at render
NavbarShowsLogout == Render(page) \in {"landing", "protected"} /\ isAuthenticated

\* the page's check and one Navbar logout can be in flight together
PageSlots == 1..(MaxCalls + 1)

InitPages ==
    /\ ClientInit(PageSlots)
    /\ page = NoPage
    /\ list = NoList
    /\ home = NoHome
    /\ form = NoForm
    /\ geo = NoGeo
    /\ doc = NoDoc

\* the session also changes under the page (sign-in, sign-out)
NextPages ==
    \/ \E n \in PageNames : Mount(n)
    \/ \E resp \in Responses("getCurrentUser") : CheckAuthResponds(resp)
    \/ \E t \in TokenArgs : SetToken(t)
    \/ NavbarShowsLogout /\ \E c \in PageSlots : StartLogoutFetch(c)
    \/ NavbarShowsLogout /\ LogoutNoFetch
    \/ \E c \in PageSlots : \E resp \in Responses("logout") : RespondLogout(c, resp)

SpecPages == InitPages /\ [][NextPages]_vars

\* C11: a page asks the server only when isAuthenticated() holds, and with no
\* token asks nothing; when its getCurrentUser() fails, the same step calls
\* setToken(null) and the page does not count the user as authenticated; the
\* weather-data page renders its protected content only while the state set
\* by a successful getCurrentUser() holds, and starts rendering it only in the
\* step in which that call resolves.
C11_State ==
    /\ Render(page) = "protected" =>
           page.name = "weather-data" /\ page.pc = "done" /\ page.isAuthenticated
    /\ page.name \in PageNames /\ page.pc = "checking" =>
           /\ Render(page) \in {"spinner", "landing"}
           /\ calls[page.call].method = "getCurrentUser"

C11_Step ==
    /\ page'.name \in PageNames /\ page'.pc = "checking" /\ page' # page =>
           /\ isAuthenticated
           /\ ret'.sent = <<Request("getCurrentUser", token)>>
    /\ page'.name \in PageNames /\ page'.pc = "done" /\ page.pc # "checking"
         /\ page' # page =>
           /\ ~isAuthenticated
           /\ ret'.sent = <<>>
           /\ Render(page') # "protected"
    /\ page.name \in PageNames /\ page.pc = "checking" /\ page'.pc = "done"
         /\ ret'.outcome = "rejected" =>
           /\ ret'.method = "getCurrentUser"
           /\ token' = NULL
           /\ storage' = NULL
           /\ ~page'.isAuthenticated
           /\ Render(page') # "protected"
           /\ page'.route # Str("/weather-data")
    /\ Render(page') = "protected" /\ Render(page) # "protected" =>
           /\ page.pc = "checking"
           /\ ret'.method = "getCurrentUser"
           /\ ret'.outcome = "resolved"
           /\ Ok(ret'.resp[1])

C11_VerifyThenTrust == []C11_State /\ [][C11_Step]_vars

\* the weather-data page after a failed getCurrentUser(): token cleared,
\* redirected to /auth, nothing protected on screen
C11_Witness ==
    /\ page.name = "weather-data"
    /\ page.pc = "done"
    /\ ret.method = "getCurrentUser"
    /\ ret.outcome = "rejected"
    /\ ret.resp # <<>>
    /\ token = NULL
    /\ page.route = Str("/auth")

----------------------------------------------------------------------------
(* login / signup racing logout on one client *)

\* a credential call and a logout side by side
RaceSlots == 1..(MaxCalls + 1)

InitRace ==
    /\ ClientInit(RaceSlots)
    /\ page = NoPage
    /\ list = NoList
    /\ home = NoHome
    /\ form = NoForm
    /\ geo = NoGeo
    /\ doc = NoDoc

NextRace ==
    \/ \E c \in RaceSlots : \E m \in CredentialMethods : StartSingle(c, m)
    \/ \E c \in RaceSlots : \E m \in CredentialMethods :
         \E resp \in Responses(m) : calls[c].method = m /\ RespondSingle(c, resp)
    \/ \E c \in RaceSlots : StartLogoutFetch(c)
    \/ LogoutNoFetch
    \/ \E c \in RaceSlots : \E resp \in Responses("logout") : RespondLogout(c, resp)

SpecRace == InitRace /\ [][NextRace]_vars

\* some call of the kind is awaiting its response
CredentialInFlight == \E c \in DOMAIN calls : calls[c].method \in CredentialMethods
LogoutInFlight == \E c \in DOMAIN calls : calls[c].method = "logout"

\* C12: with a login (or signup) and a logout in flight together, the one
\* that completes leaves the other in flight, and the one that completes last
\* decides the session: a credential call resolving after the logout has
\* completed leaves its token, a logout completing after the credential call
\* has resolved leaves null in memory and in storage.
C12_LastCompletionWins ==
    [][ /\ CredentialInFlight /\ LogoutInFlight /\ IsSettled(ret') =>
            CredentialInFlight' \/ LogoutInFlight'
        /\ ret.method = "logout" /\ IsSettled(ret) /\ CredentialInFlight
             /\ ret'.method \in CredentialMethods /\ ret'.outcome = "resolved" =>
               /\ token' = ret'.value[1].token
               /\ storage' = ret'.value[1].token
        /\ ret.method \in CredentialMethods /\ ret.outcome = "resolved"
             /\ LogoutInFlight /\ ret'.method = "logout" /\ IsSettled(ret') =>
               /\ token' = NULL
               /\ storage' = NULL ]_vars

----------------------------------------------------------------------------
(* The weather-request form (WeatherRequestForm) *)

\* validation requests of one kind in flight together
MaxValidations == 1

\* a boolean | null verdict: NULL or Verdict(b)
Verdict(b) == <<b>>

\* what can be typed into the location field, as sequences of characters
LocationTexts == {<<>>, <<"P">>, <<"P", "a">>, <<"Z", "z">>}
StartDates == {"", "2024-01-01"}
EndDates == {"", "2024-01-05"}

\* the record an edit form is opened on
ExistingRequest ==
    [location_name |-> <<"P", "a">>, start_date |-> "2024-01-01",
     end_date |-> "2024-01-05"]

\* the payloads the validation endpoints answer with; suggestions absent or
\* empty are both <<>> (either way the form shows none)
LocationValidations ==
    {[valid |-> v, suggestions |-> sg] :
        v \in BOOLEAN, sg \in {<<>>, <<"Paris, France">>}}
DateRangeValidations ==
    {[valid |-> TRUE, error |-> NULL],
     [valid |-> FALSE, error |-> NULL],
     [valid |-> FALSE, error |-> Str("End date must be after start date")]}

\* how a call of method m on the client can fail
Failures(m) ==
    {o \in {FetchThenHandle(r) : r \in Responses(m)} : o.outcome = "rejected"}

LocationOutcomes ==
    {Resolved(<<v>>) : v \in LocationValidations} \cup Failures("validateLocation")
DateRangeOutcomes ==
    {Resolved(<<v>>) : v \in DateRangeValidations} \cup Failures("validateDateRange")

SaveMethod(mode) ==
    IF mode = "create" THEN "createWeatherRequest" ELSE "updateWeatherRequest"
SaveOutcomes(mode) ==
    {FetchThenHandle(r) : r \in Responses(SaveMethod(mode))}

\* the location effect, run after the cleanup of the previous one
\* (clearTimeout): verdict null under 2 characters, else a 500 ms timer
\* holding the text it was set for
LocationEffect(f) ==
    IF Len(f.locationName) < 2
    THEN [f EXCEPT !.locTimer = NULL, !.locationValid = NULL,
                   !.locationSuggestions = <<>>, !.verdictFor = NULL]
    ELSE [f EXCEPT !.locTimer = <<f.locationName>>]

\* the date effect: verdict null unless both dates are set, else a 300 ms timer
DateEffect(f) ==
    IF f.startDate = "" \/ f.endDate = ""
    THEN [f EXCEPT !.dateTimer = NULL, !.dateRangeValid = NULL,
                   !.dateRangeError = ""]
    ELSE [f EXCEPT !.dateTimer = <<<<f.startDate, f.endDate>>>>]

\* setLocationName(t): a re-render, and the effect when the text changed
setLocationName(f, t) ==
    IF t = f.locationName THEN f ELSE LocationEffect([f EXCEPT !.locationName = t])

\* setStartDate(sd) and setEndDate(ed) in one render
setDates(f, sd, ed) ==
    IF sd = f.startDate /\ ed = f.endDate THEN f
    ELSE DateEffect([f EXCEPT !.startDate = sd, !.endDate = ed])

\* the component after its first render and effects; locCalls / dateCalls:
\* the texts of the validation requests in flight; verdictFor: the text
\* whose validation request gave the verdict on display (none for the null
\* verdict the effect sets)
MountedForm(mode) ==
    LET ex == mode = "edit"
    IN  DateEffect(LocationEffect(
          [mounted |-> TRUE, mode |-> mode,
           locationName |-> IF ex THEN ExistingRequest.location_name ELSE <<>>,
           startDate |-> IF ex THEN ExistingRequest.start_date ELSE "",
           endDate |-> IF ex THEN ExistingRequest.end_date ELSE "",
           loading |-> FALSE, validatingLocation |-> FALSE,
           validatingDates |-> FALSE, error |-> "", success |-> "",
           locationValid |-> NULL, locationSuggestions |-> <<>>,
           verdictFor |-> NULL,
           dateRangeValid |-> NULL, dateRangeError |-> "",
           locTimer |-> NULL, dateTimer |-> NULL,
           locCalls |-> <<>>, dateCalls |-> <<>>]))

\* a form that asks only for its fields to be filled
isFormValid_fieldsOnly(f) ==
    f.locationName # <<>> /\ f.startDate # "" /\ f.endDate # ""

\* locationValid && dateRangeValid && locationName && startDate && endDate
isFormValid(f) ==
    /\ f.locationValid = Verdict(TRUE)
    /\ f.dateRangeValid = Verdict(TRUE)
    /\ f.locationName # <<>>
    /\ f.startDate # ""
    /\ f.endDate # ""

\* the submit button: disabled={!isFormValid || loading}
SubmitEnabled(f) == isFormValid(f) /\ ~f.loading

Without(seq, i) == [j \in 1..(Len(seq) - 1) |-> IF j < i THEN seq[j] ELSE seq[j + 1]]

\* the timer callback after `await weatherAPI.validateLocation(...)`
validateLocationSettled(f, out) ==
    IF out.outcome = "resolved"
    THEN [f EXCEPT !.validatingLocation = FALSE,
                   !.locationValid = Verdict(out.value[1].valid),
                   !.locationSuggestions =
                       IF ~out.value[1].valid THEN out.value[1].suggestions
                       ELSE <<>>]
    ELSE [f EXCEPT !.validatingLocation = FALSE,
                   !.locationValid = Verdict(FALSE)]

\* the timer callback after `await weatherAPI.validateDateRange(...)`
validateDateRangeSettled(f, out) ==
    IF out.outcome = "resolved"
    THEN [f EXCEPT !.validatingDates = FALSE,
                   !.dateRangeValid = Verdict(out.value[1].valid),
                   !.dateRangeError =
                       IF Truthy(out.value[1].error) THEN out.value[1].error[1]
                       ELSE ""]
    ELSE [f EXCEPT !.validatingDates = FALSE,
                   !.dateRangeValid = Verdict(FALSE)]

\* handleSubmit after its await: a created request resets the fields (and
\* so the effects run), a failure shows its message
handleSubmitSettled(f, out) ==
    IF out.outcome = "rejected"
    THEN [f EXCEPT !.loading = FALSE,
                   !.error = IF Truthy(out.error) THEN out.error[1]
                             ELSE "Failed to save weather request"]
    ELSE IF f.mode = "create"
    THEN setDates(setLocationName(
           [f EXCEPT !.loading = FALSE,
                     !.success = "Weather request created successfully!"],
           <<>>), "", "")
    ELSE [f EXCEPT !.loading = FALSE,
                   !.success = "Weather request updated successfully!"]

\* the form's steps leave the client's session alone; its requests in flight
\* are kept in the form itself (locCalls, dateCalls, loading)
FormFrame == UNCHANGED <<token, storage, calls, ret, page, geo, doc, list, home>>

\* onChange of the location field
TypeLocation(t) ==
    /\ t # form.locationName
    /\ form' = setLocationName(form, t)
    /\ FormFrame

\* onChange of the start date or of the end date
PickDates(sd, ed) ==
    /\ (sd # form.startDate) # (ed # form.endDate)
    /\ form' = setDates(form, sd, ed)
    /\ FormFrame

\* the 500 ms timer fires: validateLocation is called with the text the
\* timer was set for
LocationTimerFires ==
    /\ form.locTimer # NULL
    /\ Len(form.locCalls) < MaxValidations
    /\ form' = [form EXCEPT !.locTimer = NULL, !.validatingLocation = TRUE,
                            !.locCalls = Append(@, form.locTimer[1])]
    /\ FormFrame

LocationResponds(i, out) ==
    /\ i \in 1..Len(form.locCalls)
    /\ out \in LocationOutcomes
    /\ form' = validateLocationSettled(
                   [form EXCEPT !.locCalls = Without(@, i),
                                !.verdictFor = <<form.locCalls[i]>>], out)
    /\ FormFrame

\* the 300 ms timer fires
DateTimerFires ==
    /\ form.dateTimer # NULL
    /\ Len(form.dateCalls) < MaxValidations
    /\ form' = [form EXCEPT !.dateTimer = NULL, !.validatingDates = TRUE,
                            !.dateCalls = Append(@, form.dateTimer[1])]
    /\ FormFrame

DateRangeResponds(i, out) ==
    /\ i \in 1..Len(form.dateCalls)
    /\ out \in DateRangeOutcomes
    /\ form' = validateDateRangeSettled([form EXCEPT !.dateCalls = Without(@, i)], out)
    /\ FormFrame

\* the form is submitted (the button is enabled): handleSubmit up to its await
Submit ==
    /\ SubmitEnabled(form)
    /\ form' = [form EXCEPT !.loading = TRUE, !.error = "", !.success = ""]
    /\ FormFrame

SubmitResponds(out) ==
    /\ form.loading
    /\ out \in SaveOutcomes(form.mode)
    /\ form' = handleSubmitSettled(form, out)
    /\ FormFrame

InitForm ==
    /\ ClientInit(Slots)
    /\ token = Str("t1")
    /\ page = NoPage
    /\ list = NoList
    /\ home = NoHome
    /\ form \in {MountedForm(mode) : mode \in {"create", "edit"}}
    /\ geo = NoGeo
    /\ doc = NoDoc

NextForm ==
    \/ \E t \in LocationTexts : TypeLocation(t)
    \/ \E sd \in StartDates : \E ed \in EndDates : PickDates(sd, ed)
    \/ LocationTimerFires
    \/ \E i \in 1..MaxValidations : \E out \in LocationOutcomes : LocationResponds(i, out)
    \/ DateTimerFires
    \/ \E i \in 1..MaxValidations : \E out \in DateRangeOutcomes : DateRangeResponds(i, out)
    \/ Submit
    \/ \E out \in SaveOutcomes(form.mode) : SubmitResponds(out)

SpecForm == InitForm /\ [][NextForm]_vars

\* the three required fields hold text
FieldsFilled(f) == f.locationName # <<>> /\ f.startDate # "" /\ f.endDate # ""

\* a validation answer that is not "valid": valid:false, or a failed request
Negative(out) == out.outcome = "rejected" \/ ~out.value[1].valid

C13_State ==
    /\ form.locationValid = Verdict(FALSE) \/ form.dateRangeValid = Verdict(FALSE)
         => ~SubmitEnabled(form)
    /\ \A i \in 1..Len(form.locCalls) : \A out \in LocationOutcomes :
         LET f == validateLocationSettled(form, out)
         IN  Negative(out) =>
               /\ f.locationValid = Verdict(FALSE)
               /\ ~SubmitEnabled(f)
               /\ f.error = form.error
               /\ out.outcome = "resolved" =>
                    f.locationSuggestions = out.value[1].suggestions
    /\ \A i \in 1..Len(form.dateCalls) : \A out \in DateRangeOutcomes :
         LET f == validateDateRangeSettled(form, out)
         IN  Negative(out) =>
               /\ f.dateRangeValid = Verdict(FALSE)
               /\ ~SubmitEnabled(f)
               /\ f.error = form.error
               /\ out.outcome = "resolved" /\ out.value[1].error # NULL =>
                    f.dateRangeError = out.value[1].error[1]

C13_Step ==
    form'.loading /\ ~form.loading =>
        /\ form.locationValid = Verdict(TRUE)
        /\ form.dateRangeValid = Verdict(TRUE)
        /\ FieldsFilled(form)

----------------------------------------------------------------------------
(* Geolocation utilities: getCurrentPosition and formatCoordinates *)

\* how often the platform may invoke a callback of one call
MaxCallbacks == 1

\* GeolocationPositionError codes
PERMISSION_DENIED == 1
POSITION_UNAVAILABLE == 2
TIMEOUT == 3
\* the codes a platform error can carry: the three known ones and others
ErrorCodes == {0, PERMISSION_DENIED, POSITION_UNAVAILABLE, TIMEOUT, 4}

\* the options handed to the platform
PositionOptions == [enableHighAccuracy |-> TRUE, timeout |-> 10000, maximumAge |-> 0]

\* positions the platform can report; coordinates are counted in units of
\* 0.00001 degree
Positions ==
    {[latitude |-> 4071280, longitude |-> -7400600],
     [latitude |-> -3386880, longitude |-> 15120930],
     [latitude |-> 0, longitude |-> 0],
     [latitude |-> -4, longitude |-> 6],
     [latitude |-> 8999996, longitude |-> -17999996],
     [latitude |-> -5150742, longitude |-> 12761],
     [latitude |-> 1, longitude |-> -1]}

Abs(n) == IF n < 0 THEN -n ELSE n

DigitChars == <<"0", "1", "2", "3", "4", "5", "6", "7", "8", "9">>

\* the decimal digits of a natural number
RECURSIVE NatToString(_)
NatToString(n) ==
    IF n < 10 THEN DigitChars[n + 1]
    ELSE NatToString(n \div 10) \o DigitChars[(n % 10) + 1]

\* the last k decimal digits of n, with leading zeros
RECURSIVE LastDigits(_, _)
LastDigits(n, k) ==
    IF k = 0 THEN "" ELSE LastDigits(n \div 10, k - 1) \o DigitChars[(n % 10) + 1]

\* v.toFixed(4) for v >= 0 given in units of 0.00001: the nearest multiple
\* of 0.0001 (the larger one when half-way), whole part, point, four digits
toFixed4(v) ==
    LET n == (v + 5) \div 10
    IN  NatToString(n \div 10000) \o "." \o LastDigits(n % 10000, 4)

\* the signed value printed, without Math.abs
formatCoordinates_signed(lat, lon) ==
    (IF lat < 0 THEN "-" ELSE "") \o toFixed4(Abs(lat)) \o "°"
        \o (IF lat >= 0 THEN "N" ELSE "S") \o ", "
        \o (IF lon < 0 THEN "-" ELSE "") \o toFixed4(Abs(lon)) \o "°"
        \o (IF lon >= 0 THEN "E" ELSE "W")

formatCoordinates(lat, lon) ==
    LET latDir == IF lat >= 0 THEN "N" ELSE "S"
        lonDir == IF lon >= 0 THEN "E" ELSE "W"
    IN  toFixed4(Abs(lat)) \o "°" \o latDir \o ", "
            \o toFixed4(Abs(lon)) \o "°" \o lonDir

Unsupported == "Geolocation is not supported by your browser"
UnableToAccess == "Unable to access your location. "

\* a switch whose TIMEOUT case is missing
ErrorMessage_noTimeout(code) ==
    UnableToAccess \o
      (CASE code = PERMISSION_DENIED ->
              "Please enable location permissions in your browser settings."
         [] code = POSITION_UNAVAILABLE -> "Location information is unavailable."
         [] OTHER -> "An unknown error occurred.")

\* the error callback's switch over error.code
ErrorMessage(code) ==
    UnableToAccess \o
      (CASE code = PERMISSION_DENIED ->
              "Please enable location permissions in your browser settings."
         [] code = POSITION_UNAVAILABLE -> "Location information is unavailable."
         [] code = TIMEOUT -> "Location request timed out."
         [] OTHER -> "An unknown error occurred.")

\* no call made yet.  pc: where the call is; platformCalls: invocations of
\* navigator.geolocation.getCurrentPosition; callbacks: callbacks the
\* platform has invoked; outcomes: settlements of the promise seen by the
\* caller; code: the error code of the callback that settled it
IdleGeo ==
    [pc |-> "idle", supported |-> TRUE, platformCalls |-> 0, callbacks |-> 0,
     options |-> <<>>, outcomes |-> 0, outcome |-> "none", code |-> <<>>,
     message |-> "", position |-> <<>>]

\* a getCurrentPosition that calls the platform without looking for it
getCurrentPosition_unchecked(supported) ==
    [IdleGeo EXCEPT !.pc = "waiting", !.supported = supported,
                    !.platformCalls = 1, !.options = <<PositionOptions>>]

\* getCurrentPosition(): the promise executor
getCurrentPosition(supported) ==
    IF ~supported
    THEN [IdleGeo EXCEPT !.pc = "settled", !.supported = FALSE, !.outcomes = 1,
                         !.outcome = "rejected", !.message = Unsupported]
    ELSE [IdleGeo EXCEPT !.pc = "waiting", !.supported = TRUE,
                         !.platformCalls = 1, !.options = <<PositionOptions>>]

\* resolve(position) on the promise of g: nothing once it has settled
resolve(g, position) ==
    IF g.outcome # "none" THEN g
    ELSE [g EXCEPT !.pc = "settled", !.outcomes = @ + 1, !.outcome = "resolved",
                   !.position = <<position>>]

\* reject(new Error(message)) on the promise of g: nothing once it has settled
reject(g, message) ==
    IF g.outcome # "none" THEN g
    ELSE [g EXCEPT !.pc = "settled", !.outcomes = @ + 1, !.outcome = "rejected",
                   !.message = message]

\* the location the weather page shows for a position
YourLocation(position) ==
    [name |-> "Your Location ("
                \o formatCoordinates(position.latitude, position.longitude) \o ")",
     latitude |-> position.latitude, longitude |-> position.longitude]

GeoFrame == UNCHANGED <<token, storage, calls, ret, page, form, doc, list, home>>

\* getCurrentPosition() is called, in a browser with or without the API;
\* the location on screen stays
CallGetCurrentPosition(supported) ==
    /\ geo.call.pc \in {"idle", "settled"}
    /\ geo' = [geo EXCEPT !.call = getCurrentPosition(supported)]
    /\ GeoFrame

\* the platform invokes the success callback
PlatformSuccess(position) ==
    /\ geo.call.platformCalls > 0
    /\ geo.call.callbacks < MaxCallbacks
    /\ geo' = [geo EXCEPT !.call = resolve([@ EXCEPT !.callbacks = @ + 1], position)]
    /\ GeoFrame

\* the platform invokes the error callback
PlatformError(code) ==
    /\ geo.call.platformCalls > 0
    /\ geo.call.callbacks < MaxCallbacks
    /\ geo' = [geo EXCEPT !.call =
                 reject([@ EXCEPT !.callbacks = @ + 1,
                                  !.code = IF geo.call.outcome = "none"
                                           THEN <<code>> ELSE @],
                        ErrorMessage(code))]
    /\ GeoFrame

\* the weather page shows the position it was given
ShowLocation ==
    /\ geo.call.outcome = "resolved"
    /\ geo.location # <<YourLocation(geo.call.position[1])>>
    /\ geo' = [geo EXCEPT !.location = <<YourLocation(geo.call.position[1])>>]
    /\ GeoFrame

InitGeo ==
    /\ ClientInit(Slots)
    /\ token = NULL
    /\ page = NoPage
    /\ list = NoList
    /\ home = NoHome
    /\ form = NoForm
    /\ geo = [call |-> IdleGeo, location |-> <<>>]
    /\ doc = NoDoc

NextGeo ==
    \/ \E supported \in BOOLEAN : CallGetCurrentPosition(supported)
    \/ \E position \in Positions : PlatformSuccess(position)
    \/ \E code \in ErrorCodes : PlatformError(code)
    \/ ShowLocation

SpecGeo == InitGeo /\ [][NextGeo]_vars

\* C14: a getCurrentPosition() call never has more than one outcome; it has
\* none while the platform has invoked no callback and exactly one, a
\* resolved position or a rejected error, once the platform has invoked one;
\* where the API is missing the call is rejected as unsupported at once and
\* the platform API is not invoked.
C14_ExactlyOneOutcome ==
    LET c == geo.call
    IN  /\ c.outcomes <= 1
        /\ (c.pc = "settled") = (c.outcomes = 1)
        /\ (c.outcomes = 1) = (c.outcome \in {"resolved", "rejected"})
        /\ c.pc = "waiting" => c.callbacks = 0 /\ c.outcome = "none"
        /\ c.callbacks >= 1 => c.outcomes = 1
        /\ c.outcome = "resolved" => c.position # <<>> /\ c.message = ""
        /\ c.outcome = "rejected" => c.position = <<>> /\ c.message # ""
        /\ c.pc # "idle" /\ c.supported =>
               c.platformCalls = 1 /\ c.options = <<PositionOptions>>
        /\ c.pc # "idle" /\ ~c.supported =>
               /\ c.outcome = "rejected"
               /\ c.message = Unsupported
               /\ c.platformCalls = 0
               /\ c.callbacks = 0

\* the platform has invoked one callback and the call has its one outcome
C14_Witness ==
    /\ geo.call.supported
    /\ geo.call.callbacks = 1
    /\ geo.call.outcomes = 1
    /\ geo.call.outcome = "resolved"

Kinds == {"unsupported", "permission denied", "position unavailable",
          "timeout", "unknown"}

\* the kind of a failed call: by the missing API, else by the error code
KindOf(c) ==
    IF ~c.supported THEN "unsupported"
    ELSE IF c.code = <<1>> THEN "permission denied"
    ELSE IF c.code = <<2>> THEN "position unavailable"
    ELSE IF c.code = <<3>> THEN "timeout"
    ELSE "unknown"

KindMessage(k) ==
    CASE k = "unsupported" -> "Geolocation is not supported by your browser"
      [] k = "permission denied" ->
           "Unable to access your location. Please enable location permissions in your browser settings."
      [] k = "position unavailable" ->
           "Unable to access your location. Location information is unavailable."
      [] k = "timeout" -> "Unable to access your location. Location request timed out."
      [] k = "unknown" -> "Unable to access your location. An unknown error occurred."

\* C15: a failed getCurrentPosition() carries the message of exactly one of
\* five kinds: unsupported, permission denied (code 1), position unavailable
\* (code 2), timeout (code 3), unknown (any other code); the five messages are
\* fixed and differ from one another.
C15_FiveKinds ==
    /\ Cardinality({KindMessage(k) : k \in Kinds}) = 5
    /\ geo.call.outcome = "rejected" =>
         /\ geo.call.message = KindMessage(KindOf(geo.call))
         /\ geo.call.supported => geo.call.code # <<>>
         /\ geo.call.supported /\ geo.call.code[1] \notin {1, 2, 3} =>
              geo.call.message = KindMessage("unknown")

\* a platform error whose code is none of the three known ones
C15_Witness ==
    /\ geo.call.outcome = "rejected"
    /\ geo.call.supported
    /\ geo.call.code = <<4>>

\* v to four decimal places, by TLC's own printing of integers
Decimals4(v) ==
    LET n == IF v % 10 >= 5 THEN (v \div 10) + 1 ELSE v \div 10
        frac == n % 10000
    IN  ToString(n \div 10000) \o "."
          \o (IF frac < 10 THEN "000" ELSE IF frac < 100 THEN "00"
              ELSE IF frac < 1000 THEN "0" ELSE "")
          \o ToString(frac)

\* C20: formatCoordinates(lat, lon) is |lat| to 4 decimal places, then '°N'
\* when lat >= 0 and '°S' otherwise, then ', ', then |lon| to 4 decimal
\* places, then '°E' when lon >= 0 and '°W' otherwise; (40.7128, -74.0060)
\* gives '40.7128°N, 74.0060°W' and (-33.8688, 151.2093) gives
\* '33.8688°S, 151.2093°E'.
C20_FormatCoordinates ==
    geo.location # <<>> =>
        LET lat == geo.location[1].latitude
            lon == geo.location[1].longitude
            text == formatCoordinates(lat, lon)
        IN  /\ geo.location[1].name = "Your Location (" \o text \o ")"
            /\ text = Decimals4(Abs(lat)) \o (IF lat >= 0 THEN "°N" ELSE "°S")
                        \o ", "
                        \o Decimals4(Abs(lon)) \o (IF lon >= 0 THEN "°E" ELSE "°W")
            /\ lat = 4071280 /\ lon = -7400600 => text = "40.7128°N, 74.0060°W"
            /\ lat = -3386880 /\ lon = 15120930 => text = "33.8688°S, 151.2093°E"

\* the page shows the second example's position
C20_Witness ==
    /\ geo.location # <<>>
    /\ geo.location[1].latitude = -3386880
    /\ geo.location[1].longitude = 15120930
    /\ geo.location[1].name = "Your Location (33.8688°S, 151.2093°E)"

----------------------------------------------------------------------------
(* Export utilities: exportAsJSON, exportAsXML, exportAsCSV,               *)
(* exportAsMarkdown.  A text is a sequence of pieces (strings); the line   *)
(* break is a piece of its own, and free text is held one character a      *)
(* piece.  Numbers are counted in tenths.                                  *)

\* days in a record's weather_data
MaxDays == 2

NL == "\n"

RECURSIVE Concat(_)
\* the texts of a sequence, one after the other
Concat(texts) ==
    IF texts = <<>> THEN <<>> ELSE Head(texts) \o Concat(Tail(texts))

RECURSIVE Join(_, _)
\* Array.prototype.join over texts
Join(texts, sep) ==
    IF texts = <<>> THEN <<>>
    ELSE IF Len(texts) = 1 THEN texts[1]
    ELSE texts[1] \o sep \o Join(Tail(texts), sep)

RECURSIVE FlatTo(_, _)
\* the first n pieces of a text as one string
FlatTo(text, n) == IF n = 0 THEN "" ELSE FlatTo(text, n - 1) \o text[n]

\* a text without line breaks as one string
Flat(text) == FlatTo(text, Len(text))

\* where the line breaks of a text are, in order
Breaks(text) ==
    SelectSeq([i \in 1..Len(text) |-> i], LAMBDA i : text[i] = NL)

\* String.prototype.split("\n"): the lines of a text
SplitLines(text) ==
    LET brs == Breaks(text)
    IN  [k \in 1..(Len(brs) + 1) |->
            SubSeq(text,
                   (IF k = 1 THEN 0 ELSE brs[k - 1]) + 1,
                   (IF k > Len(brs) THEN Len(text) + 1 ELSE brs[k]) - 1)]

\* the lines of a text, each as one string
Lines(text) ==
    LET ls == SplitLines(text) IN [i \in 1..Len(ls) |-> Flat(ls[i])]

\* Array.prototype.filter(Boolean) over texts: the empty string is dropped
FilterBoolean(texts) == SelectSeq(texts, LAMBDA t : t # <<>>)

\* String(x) of a number given in tenths
NumToString(t) ==
    (IF t < 0 THEN "-" ELSE "") \o NatToString(Abs(t) \div 10)
        \o (IF Abs(t) % 10 = 0 THEN "" ELSE "." \o DigitChars[(Abs(t) % 10) + 1])

\* the number num / den, num counted in tenths and den a length; NaN when
\* both are 0 (a sum over no days divided by their number)
Quotient(num, den) == [nan |-> (num = 0 /\ den = 0), num |-> num, den |-> den]

\* x.toFixed(1): "NaN" for NaN, else sign, whole part, point, one digit,
\* rounded to the nearest tenth (away from zero when half-way)
toFixed1(x) ==
    IF x.nan THEN "NaN"
    ELSE LET n == ((2 * Abs(x.num)) + x.den) \div (2 * x.den)
         IN  (IF x.num < 0 THEN "-" ELSE "") \o NatToString(n \div 10)
                 \o "." \o DigitChars[(n % 10) + 1]

RECURSIVE Sum(_, _)
\* reduce((sum, d) => sum + d[field], 0)
Sum(days, field) ==
    IF days = <<>> THEN 0 ELSE Head(days)[field] + Sum(Tail(days), field)

RECURSIVE ReplaceAll(_, _, _)
\* String.prototype.replace(/ch/g, rep) over a text held by characters
ReplaceAll(text, ch, rep) ==
    IF text = <<>> THEN <<>>
    ELSE (IF Head(text) = ch THEN rep ELSE <<Head(text)>>)
             \o ReplaceAll(Tail(text), ch, rep)

Amp == <<"&", "a", "m", "p", ";">>
Lt == <<"&", "l", "t", ";">>
Gt == <<"&", "g", "t", ";">>
Quot == <<"&", "q", "u", "o", "t", ";">>
Apos == <<"&", "a", "p", "o", "s", ";">>

\* the ampersand replaced last: the entities written before are hit again
escapeXml_ampLast(unsafe) ==
    ReplaceAll(ReplaceAll(ReplaceAll(ReplaceAll(ReplaceAll(unsafe,
        "<", Lt), ">", Gt), "\"", Quot), "'", Apos), "&", Amp)

escapeXml(unsafe) ==
    ReplaceAll(ReplaceAll(ReplaceAll(ReplaceAll(ReplaceAll(unsafe,
        "&", Amp), "<", Lt), ">", Gt), "\"", Quot), "'", Apos)

\* the days a record can hold; temperature_mean is optional
Days ==
    {[date |-> "2024-01-01", temperature_max |-> 200, temperature_min |-> 100,
      temperature_mean |-> <<150>>, feels_like_max |-> 190,
      feels_like_min |-> 85, precipitation |-> 0, rain |-> 0,
      weather_code |-> 0, weather_description |-> <<"C", "l", "e", "a", "r">>,
      wind_speed_max |-> 50, wind_direction |-> 1800],
     [date |-> "2024-01-02", temperature_max |-> 220, temperature_min |-> 120,
      temperature_mean |-> <<>>, feels_like_max |-> 213,
      feels_like_min |-> -35, precipitation |-> 20, rain |-> 15,
      weather_code |-> 610,
      weather_description |-> <<"R", "a", "i", "n", " ", "&", " ", "f", "o", "g">>,
      wind_speed_max |-> 70, wind_direction |-> 900],
     [date |-> "2024-01-03", temperature_max |-> 5, temperature_min |-> -5,
      temperature_mean |-> <<0>>, feels_like_max |-> 0,
      feels_like_min |-> -20, precipitation |-> 4, rain |-> 0,
      weather_code |-> 710, weather_description |-> <<"S", "n", "o", "w">>,
      wind_speed_max |-> 125, wind_direction |-> 0]}

DaySeqs == UNION {[1..n -> Days] : n \in 0..MaxDays}

\* a location name with both kinds of quote in it
LocationNames == {<<"L", "'", "A", "\"", "x", "\"">>}

\* notes: null, the empty string, or text (here: A & B <C>)
NotesValues ==
    {NULL, Str(<<>>), Str(<<"A", " ", "&", " ", "B", " ", "<", "C", ">">>)}

\* the WeatherRequest records exported
Requests ==
    {[id |-> 70, location_name |-> ln, country |-> <<"F", "R">>,
      latitude |-> 489, longitude |-> 24,
      timezone |-> <<"E", "u", "r", "o", "p", "e", "/", "P", "a", "r", "i", "s">>,
      start_date |-> "2024-01-01", end_date |-> "2024-01-03",
      weather_data |-> wd, notes |-> nt,
      created_at |-> "2024-01-04T10:00:00Z",
      updated_at |-> "2024-01-04T10:00:00Z"] :
        ln \in LocationNames, wd \in DaySeqs, nt \in NotesValues}

\* new Date().toLocaleString() at the moments an export can run
Times == {"1/4/2024, 10:00:00 AM", "1/5/2024, 9:30:00 AM"}

\* `request.notes || ""`
NotesOrEmpty(request) == IF request.notes = NULL THEN <<>> ELSE request.notes[1]

\* `day.temperature_mean ? ... : ...`: a mean is there and is not 0
HasMean(day) == day.temperature_mean # <<>> /\ day.temperature_mean[1] # 0

\* the common file name, with the extension of the format
FileName(request, ext) ==
    "weather-data-" \o Flat(request.location_name) \o "-" \o request.start_date
        \o "_" \o request.end_date \o "." \o ext

\* one <day> element of the XML document
XmlDay(day) ==
    Join(<< <<"    <day>">>,
            <<"      <date>", day.date, "</date>">>,
            <<"      <temperatureMax>", NumToString(day.temperature_max), "</temperatureMax>">>,
            <<"      <temperatureMin>", NumToString(day.temperature_min), "</temperatureMin>">>,
            <<"      ">> \o (IF HasMean(day)
                             THEN <<"<temperatureMean>",
                                    NumToString(day.temperature_mean[1]),
                                    "</temperatureMean>">>
                             ELSE <<>>),
            <<"      <feelsLikeMax>", NumToString(day.feels_like_max), "</feelsLikeMax>">>,
            <<"      <feelsLikeMin>", NumToString(day.feels_like_min), "</feelsLikeMin>">>,
            <<"      <precipitation>", NumToString(day.precipitation), "</precipitation>">>,
            <<"      <rain>", NumToString(day.rain), "</rain>">>,
            <<"      <weatherCode>", NumToString(day.weather_code), "</weatherCode>">>,
            <<"      <weatherDescription>">> \o escapeXml(day.weather_description)
                \o <<"</weatherDescription>">>,
            <<"      <windSpeedMax>", NumToString(day.wind_speed_max), "</windSpeedMax>">>,
            <<"      <windDirection>", NumToString(day.wind_direction), "</windDirection>">>,
            <<"    </day>">> >>, <<NL>>)

\* the document exportAsXML hands to downloadFile
exportAsXML(request) ==
    Join(<< <<"<?xml version=\"1.0\" encoding=\"UTF-8\"?>">>,
            <<"<WeatherRequest>">>,
            <<"  <id>", NumToString(request.id), "</id>">>,
            <<"  <location>">>,
            <<"    <name>">> \o escapeXml(request.location_name) \o <<"</name>">>,
            <<"    <country>">> \o escapeXml(request.country) \o <<"</country>">>,
            <<"    <latitude>", NumToString(request.latitude), "</latitude>">>,
            <<"    <longitude>", NumToString(request.longitude), "</longitude>">>,
            <<"    <timezone>">> \o escapeXml(request.timezone) \o <<"</timezone>">>,
            <<"  </location>">>,
            <<"  <dateRange>">>,
            <<"    <startDate>", request.start_date, "</startDate>">>,
            <<"    <endDate>", request.end_date, "</endDate>">>,
            <<"  </dateRange>">>,
            <<"  <notes>">> \o escapeXml(NotesOrEmpty(request)) \o <<"</notes>">>,
            <<"  <weatherData>">>,
            Join([i \in 1..Len(request.weather_data) |->
                     XmlDay(request.weather_data[i])], <<NL>>),
            <<"  </weatherData>">>,
            <<"  <metadata>">>,
            <<"    <createdAt>", request.created_at, "</createdAt>">>,
            <<"    <updatedAt>", request.updated_at, "</updatedAt>">>,
            <<"  </metadata>">>,
            <<"</WeatherRequest>">> >>, <<NL>>)

CsvHeaders ==
    << <<"Date">>, <<"Temperature Max (°C)">>, <<"Temperature Min (°C)">>,
       <<"Temperature Mean (°C)">>, <<"Feels Like Max (°C)">>,
       <<"Feels Like Min (°C)">>, <<"Precipitation (mm)">>, <<"Rain (mm)">>,
       <<"Weather Code">>, <<"Weather Description">>,
       <<"Wind Speed Max (km/h)">>, <<"Wind Direction (°)">> >>

\* the cells of one data row
CsvRow(day) ==
    << <<day.date>>,
       <<NumToString(day.temperature_max)>>,
       <<NumToString(day.temperature_min)>>,
       IF HasMean(day) THEN <<NumToString(day.temperature_mean[1])>> ELSE <<>>,
       <<NumToString(day.feels_like_max)>>,
       <<NumToString(day.feels_like_min)>>,
       <<NumToString(day.precipitation)>>,
       <<NumToString(day.rain)>>,
       <<NumToString(day.weather_code)>>,
       <<"\"">> \o day.weather_description \o <<"\"">>,
       <<NumToString(day.wind_speed_max)>>,
       <<NumToString(day.wind_direction)>> >>

\* the metadata entries before .filter(Boolean).join("\n")
CsvMetadataEntries(request) ==
    << <<"# Weather Data for ">> \o request.location_name \o <<", ">>
           \o request.country,
       <<"# Date Range: ", request.start_date, " to ", request.end_date>>,
       <<"# Location: ", NumToString(request.latitude), ", ",
         NumToString(request.longitude)>>,
       <<"# Timezone: ">> \o request.timezone,
       IF NotesOrEmpty(request) # <<>>
       THEN <<"# Notes: ">> \o NotesOrEmpty(request) ELSE <<>>,
       <<>> >>

\* the metadata block: the non-empty entries, a line break between them
CsvMetadata(request) == Join(FilterBoolean(CsvMetadataEntries(request)), <<NL>>)

\* the document exportAsCSV hands to downloadFile
exportAsCSV(request) ==
    CsvMetadata(request)
        \o Join(CsvHeaders, <<",">>)
        \o <<NL>>
        \o Join([i \in 1..Len(request.weather_data) |->
                    Join(CsvRow(request.weather_data[i]), <<",">>)], <<NL>>)

\* one row of the Markdown table
MarkdownRow(day) ==
    <<"| ", day.date, " | ", NumToString(day.temperature_max), "°C | ",
      NumToString(day.temperature_min), "°C | ",
      IF HasMean(day) THEN NumToString(day.temperature_mean[1]) \o "°C" ELSE "N/A",
      " | ", NumToString(day.feels_like_max), "°C | ",
      NumToString(day.feels_like_min), "°C | ",
      NumToString(day.precipitation), "mm | ", NumToString(day.rain), "mm | ">>
        \o day.weather_description
        \o <<" | ", NumToString(day.wind_speed_max), "km/h | ",
             NumToString(day.wind_direction), "° |">>

\* the statistics with the precipitation averaged instead of summed
MarkdownStatistics_meanPrecipitation(days) ==
    << <<"- **Average Max Temperature:** ",
         toFixed1(Quotient(Sum(days, "temperature_max"), Len(days))), "°C">>,
       <<"- **Average Min Temperature:** ",
         toFixed1(Quotient(Sum(days, "temperature_min"), Len(days))), "°C">>,
       <<"- **Total Precipitation:** ",
         toFixed1(Quotient(Sum(days, "precipitation"), Len(days))), "mm">>,
       <<"- **Total Rain:** ", toFixed1(Quotient(Sum(days, "rain"), 1)), "mm">>,
       <<"- **Average Wind Speed:** ",
         toFixed1(Quotient(Sum(days, "wind_speed_max"), Len(days))), "km/h">> >>

\* the five lines under "## Statistics"
MarkdownStatistics(days) ==
    << <<"- **Average Max Temperature:** ",
         toFixed1(Quotient(Sum(days, "temperature_max"), Len(days))), "°C">>,
       <<"- **Average Min Temperature:** ",
         toFixed1(Quotient(Sum(days, "temperature_min"), Len(days))), "°C">>,
       <<"- **Total Precipitation:** ",
         toFixed1(Quotient(Sum(days, "precipitation"), 1)), "mm">>,
       <<"- **Total Rain:** ", toFixed1(Quotient(Sum(days, "rain"), 1)), "mm">>,
       <<"- **Average Wind Speed:** ",
         toFixed1(Quotient(Sum(days, "wind_speed_max"), Len(days))), "km/h">> >>

\* the time of the export written on two lines
GeneratedOn_twoLines(now) ==
    <<"*Generated on ", now, "*", NL, "*Exported at ", now, "*">>

\* the line carrying the time of the export
GeneratedOn(now) == <<"*Generated on ", now, "*">>

\* the document exportAsMarkdown hands to downloadFile, at time `now`
exportAsMarkdown(request, now) ==
    Join(<< <<"# Weather Data Report">>,
            <<>>,
            <<"## Location Information">>,
            <<"- **Location:** ">> \o request.location_name \o <<", ">>
                \o request.country,
            <<"- **Coordinates:** ", NumToString(request.latitude), ", ",
              NumToString(request.longitude)>>,
            <<"- **Timezone:** ">> \o request.timezone,
            <<>>,
            <<"## Date Range">>,
            <<"- **Start Date:** ", request.start_date>>,
            <<"- **End Date:** ", request.end_date>>,
            <<"- **Duration:** ", NatToString(Len(request.weather_data)), " days">>,
            <<>>,
            IF NotesOrEmpty(request) # <<>>
            THEN <<"## Notes", NL>> \o NotesOrEmpty(request) \o <<NL>> ELSE <<>>,
            <<"## Weather Data">>,
            <<>>,
            <<"| Date | Temp Max | Temp Min | Temp Mean | Feels Like Max | Feels Like Min | Precipitation | Rain | Weather | Wind Speed | Wind Dir |">>,
            <<"|------|----------|----------|-----------|----------------|----------------|---------------|------|---------|------------|----------|">>,
            Join([i \in 1..Len(request.weather_data) |->
                     MarkdownRow(request.weather_data[i])], <<NL>>),
            <<>>,
            <<"## Statistics">>,
            <<>>,
            Join(MarkdownStatistics(request.weather_data), <<NL>>),
            <<>>,
            <<"---">>,
            GeneratedOn(now),
            <<"*Request ID: ", NumToString(request.id), "*">>,
            <<>> >>, <<NL>>)

\* a JSON string literal: quotes around the text, \ and " escaped
JsonString(chars) ==
    <<"\"">> \o ReplaceAll(ReplaceAll(chars, "\\", <<"\\", "\\">>),
                           "\"", <<"\\", "\"">>) \o <<"\"">>

\* one weather_data item at indentation 4; an undefined temperature_mean is
\* left out, a mean of 0 is not
JsonDay(day) ==
    Join(<< <<"    {">>,
            Join(<< <<"      \"date\": ">> \o JsonString(<<day.date>>),
                    <<"      \"temperature_max\": ", NumToString(day.temperature_max)>>,
                    <<"      \"temperature_min\": ", NumToString(day.temperature_min)>> >>
                 \o (IF day.temperature_mean = <<>> THEN <<>>
                     ELSE << <<"      \"temperature_mean\": ",
                               NumToString(day.temperature_mean[1])>> >>)
                 \o << <<"      \"feels_like_max\": ", NumToString(day.feels_like_max)>>,
                       <<"      \"feels_like_min\": ", NumToString(day.feels_like_min)>>,
                       <<"      \"precipitation\": ", NumToString(day.precipitation)>>,
                       <<"      \"rain\": ", NumToString(day.rain)>>,
                       <<"      \"weather_code\": ", NumToString(day.weather_code)>>,
                       <<"      \"weather_description\": ">>
                           \o JsonString(day.weather_description),
                       <<"      \"wind_speed_max\": ", NumToString(day.wind_speed_max)>>,
                       <<"      \"wind_direction\": ", NumToString(day.wind_direction)>> >>,
                 <<",", NL>>),
            <<"    }">> >>, <<NL>>)

\* JSON.stringify(request, null, 2), the keys in the order of the record
exportAsJSON(request) ==
    Join(<< <<"{">>,
            Join(<< <<"  \"id\": ", NumToString(request.id)>>,
                    <<"  \"location_name\": ">> \o JsonString(request.location_name),
                    <<"  \"country\": ">> \o JsonString(request.country),
                    <<"  \"latitude\": ", NumToString(request.latitude)>>,
                    <<"  \"longitude\": ", NumToString(request.longitude)>>,
                    <<"  \"timezone\": ">> \o JsonString(request.timezone),
                    <<"  \"start_date\": ">> \o JsonString(<<request.start_date>>),
                    <<"  \"end_date\": ">> \o JsonString(<<request.end_date>>),
                    IF request.weather_data = <<>>
                    THEN <<"  \"weather_data\": []">>
                    ELSE Join(<< <<"  \"weather_data\": [">>,
                                 Join([i \in 1..Len(request.weather_data) |->
                                          JsonDay(request.weather_data[i])],
                                      <<",", NL>>),
                                 <<"  ]">> >>, <<NL>>),
                    <<"  \"notes\": ">>
                        \o (IF request.notes = NULL THEN <<"null">>
                            ELSE JsonString(request.notes[1])),
                    <<"  \"created_at\": ">> \o JsonString(<<request.created_at>>),
                    <<"  \"updated_at\": ">> \o JsonString(<<request.updated_at>>) >>,
                 <<",", NL>>),
            <<"}">> >>, <<NL>>)

Formats == {"json", "xml", "csv", "markdown"}

\* what each export function hands to downloadFile at time `now`
Export(format, request, now) ==
    CASE format = "json" ->
           [content |-> exportAsJSON(request),
            filename |-> FileName(request, "json"), mimeType |-> "application/json"]
      [] format = "xml" ->
           [content |-> exportAsXML(request),
            filename |-> FileName(request, "xml"), mimeType |-> "application/xml"]
      [] format = "csv" ->
           [content |-> exportAsCSV(request),
            filename |-> FileName(request, "csv"), mimeType |-> "text/csv"]
      [] format = "markdown" ->
           [content |-> exportAsMarkdown(request, now),
            filename |-> FileName(request, "md"), mimeType |-> "text/markdown"]

DocFrame == UNCHANGED <<token, storage, calls, ret, page, form, geo, list, home>>

\* an export of the record in one format: downloadFile receives the
\* document; `before` keeps the document this format gave the last time
ExportAs(format, now) ==
    LET file == Export(format, doc.request, now)
    IN  /\ doc' = [doc EXCEPT !.format = format,
                              !.filename = file.filename,
                              !.mimeType = file.mimeType,
                              !.before = doc.downloads[format],
                              !.downloads[format] = <<file.content>>]
        /\ DocFrame

InitExport ==
    /\ ClientInit(Slots)
    /\ token = NULL
    /\ page = NoPage
    /\ list = NoList
    /\ home = NoHome
    /\ form = NoForm
    /\ geo = NoGeo
    /\ \E request \in Requests :
         doc = [request |-> request, format |-> "none", filename |-> "",
                mimeType |-> "", before |-> <<>>,
                downloads |-> [f \in Formats |-> <<>>]]

NextExport ==
    \/ ExportAs("json", "")
    \/ ExportAs("xml", "")
    \/ ExportAs("csv", "")
    \/ \E now \in Times : ExportAs("markdown", now)

SpecExport == InitExport /\ [][NextExport]_vars

\* the document of the latest export
Content == doc.downloads[doc.format][1]

\* C16: the Markdown export of a record with no weather_data reports its
\* averages as not available: NaN appears nowhere in the document.
C16_EmptyStatisticsNotAvailable ==
    doc.format = "markdown" /\ doc.request.weather_data = <<>> =>
        \A i \in 1..Len(Content) : Content[i] # "NaN"

C17_State ==
    doc.format # "none" /\ doc.before # <<>> =>
        IF doc.format # "markdown" THEN doc.before[1] = Content
        ELSE LET a == SplitLines(doc.before[1])
                 b == SplitLines(Content)
             IN  /\ Len(a) = Len(b)
                 /\ \A i \in 1..Len(a) :
                      a[i] # b[i] =>
                        /\ i = Len(a) - 2
                        /\ \E t1, t2 \in Times :
                             a[i] = GeneratedOn(t1) /\ b[i] = GeneratedOn(t2)

CommentPrefixes ==
    {"# Weather Data for ", "# Date Range: ", "# Location: ", "# Timezone: ",
     "# Notes: "}

\* C18: the CSV document is its metadata lines (four, five with notes), each
\* starting with '#', then the header row on a line of its own, then one data
\* row per weather_data item in input order.
C18_CsvLayout ==
    doc.format = "csv" =>
        LET ls == SplitLines(Content)
            days == doc.request.weather_data
            m == IF NotesOrEmpty(doc.request) # <<>> THEN 5 ELSE 4
        IN  /\ Len(ls) >= m + 1
            /\ \A i \in 1..m : ls[i] # <<>> /\ Head(ls[i]) \in CommentPrefixes
            /\ ls[m + 1] = Join(CsvHeaders, <<",">>)
            /\ days # <<>> =>
                 /\ Len(ls) = m + 1 + Len(days)
                 /\ \A k \in 1..Len(days) :
                      ls[m + 1 + k] = Join(CsvRow(days[k]), <<",">>)

\* the entity of one character, the character itself if it has none
Entity(ch) ==
    CASE ch = "&" -> <<"&amp;">>
      [] ch = "<" -> <<"&lt;">>
      [] ch = ">" -> <<"&gt;">>
      [] ch = "\"" -> <<"&quot;">>
      [] ch = "'" -> <<"&apos;">>
      [] OTHER -> <<ch>>

\* every character of a text replaced once by its entity
EscapedOnce(text) == Flat(Concat([i \in 1..Len(text) |-> Entity(text[i])]))

\* C19: in the XML document the location name, the country, the timezone,
\* the notes and every weather description appear with each of their
\* characters & < > " ' replaced once by its entity, and nothing escaped
\* twice; notes 'A & B <C>' are emitted as 'A &amp; B &lt;C&gt;'.
C19_XmlEscapedOnce ==
    doc.format = "xml" =>
        LET ls == Lines(Content)
            r == doc.request
        IN  /\ ls[5] = "    <name>" \o EscapedOnce(r.location_name) \o "</name>"
            /\ ls[6] = "    <country>" \o EscapedOnce(r.country) \o "</country>"
            /\ ls[9] = "    <timezone>" \o EscapedOnce(r.timezone) \o "</timezone>"
            /\ ls[15] = "  <notes>" \o EscapedOnce(NotesOrEmpty(r)) \o "</notes>"
            /\ NotesOrEmpty(r) = <<"A", " ", "&", " ", "B", " ", "<", "C", ">">> =>
                 ls[15] = "  <notes>A &amp; B &lt;C&gt;</notes>"
            /\ \A k \in 1..Len(r.weather_data) :
                 ls[16 + ((k - 1) * 14) + 11] =
                     "      <weatherDescription>"
                       \o EscapedOnce(r.weather_data[k].weather_description)
                       \o "</weatherDescription>"

\* an XML export of a record with the notes A & B <C> and a day whose
\* description holds an ampersand
C19_Witness ==
    /\ doc.format = "xml"
    /\ NotesOrEmpty(doc.request) = <<"A", " ", "&", " ", "B", " ", "<", "C", ">">>
    /\ \E k \in 1..Len(doc.request.weather_data) :
         \E i \in 1..Len(doc.request.weather_data[k].weather_description) :
           doc.request.weather_data[k].weather_description[i] = "&"

\* the tenths nearest to sum / den, sum counted in tenths (two when half-way)
Rounded(sum, den) ==
    {v \in (0 - Abs(sum) - 1)..(Abs(sum) + 1) : 2 * Abs((v * den) - sum) <= den}

\* a number of tenths written with one decimal place
OneDecimal(v) ==
    (IF v < 0 THEN "-" ELSE "") \o NatToString(Abs(v) \div 10) \o "."
        \o DigitChars[(Abs(v) % 10) + 1]

\* the lines a statistic can read: label, the value to one decimal, unit
StatisticLines(label, sum, den, unit) ==
    {label \o OneDecimal(v) \o unit : v \in Rounded(sum, den)}

\* the number of the line "## Statistics" in a document
StatisticsHeading(ls) == CHOOSE i \in 1..Len(ls) : ls[i] = "## Statistics"

\* C21: for a record with at least one day the five lines under
\* "## Statistics" are the mean of temperature_max, the mean of
\* temperature_min, the sum of precipitation, the sum of rain and the mean of
\* wind_speed_max over all days, each to one decimal place; for the days with
\* max 20/22, min 10/12, precipitation 0/2 and wind 5/7 they read 21.0, 11.0,
\* 2.0 and 6.0.
C21_MarkdownStatistics ==
    doc.format = "markdown" /\ doc.request.weather_data # <<>> =>
        LET ls == Lines(Content)
            s == StatisticsHeading(ls)
            days == doc.request.weather_data
            n == Len(days)
        IN  /\ ls[s + 2] \in StatisticLines("- **Average Max Temperature:** ",
                                 Sum(days, "temperature_max"), n, "°C")
            /\ ls[s + 3] \in StatisticLines("- **Average Min Temperature:** ",
                                 Sum(days, "temperature_min"), n, "°C")
            /\ ls[s + 4] \in StatisticLines("- **Total Precipitation:** ",
                                 Sum(days, "precipitation"), 1, "mm")
            /\ ls[s + 5] \in StatisticLines("- **Total Rain:** ",
                                 Sum(days, "rain"), 1, "mm")
            /\ ls[s + 6] \in StatisticLines("- **Average Wind Speed:** ",
                                 Sum(days, "wind_speed_max"), n, "km/h")
            /\ (/\ n = 2
                /\ days[1].temperature_max = 200 /\ days[2].temperature_max = 220
                /\ days[1].temperature_min = 100 /\ days[2].temperature_min = 120
                /\ days[1].precipitation = 0 /\ days[2].precipitation = 20
                /\ days[1].wind_speed_max = 50 /\ days[2].wind_speed_max = 70) =>
                 /\ ls[s + 2] = "- **Average Max Temperature:** 21.0°C"
                 /\ ls[s + 3] = "- **Average Min Temperature:** 11.0°C"
                 /\ ls[s + 4] = "- **Total Precipitation:** 2.0mm"
                 /\ ls[s + 6] = "- **Average Wind Speed:** 6.0km/h"

\* a Markdown export of the two-day record of the example
C21_Witness ==
    /\ doc.format = "markdown"
    /\ Len(doc.request.weather_data) = 2
    /\ doc.request.weather_data[1].temperature_max = 200
    /\ doc.request.weather_data[2].temperature_max = 220

\* a Markdown export whose mean lies half-way between two tenths
C21_HalfWay ==
    /\ doc.format = "markdown"
    /\ Len(doc.request.weather_data) = 2
    /\ Sum(doc.request.weather_data, "temperature_max") % 2 = 1

\* C22: in every reachable state isAuthenticated() is true exactly when the
\* headers built for authenticated requests hold an Authorization header.
C22_AuthenticatedIffBearer ==
    isAuthenticated <=> HasHeader(getAuthHeaders(token), "Authorization")

\* C23: a signup or login that fails (the fetch rejects, the response is not
\* 2xx, or its body cannot be read) leaves the session store as it was: the
\* token in memory and the 'auth_token' entry are the same after the step in
\* which the call is rejected as before it.
C23_FailedCredentialKeepsSession ==
    [][(ret'.method \in CredentialMethods /\ ret'.outcome = "rejected") =>
           (token' = token /\ storage' = storage)]_vars

\* a login has just failed with a non-2xx response while a token was held
C23_Witness ==
    /\ ret.method = "login"
    /\ ret.outcome = "rejected"
    /\ ret.resp # <<>>
    /\ ret.resp[1].kind # "reject"
    /\ ~Ok(ret.resp[1])
    /\ token = Str("t1")
    /\ storage = Str("t1")

\* no debounce timer is pending and no validation request is in flight
FormQuiet(f) ==
    /\ f.locTimer = NULL /\ f.locCalls = <<>>
    /\ f.dateTimer = NULL /\ f.dateCalls = <<>>

\* C24: once every debounce timer has fired and every validation request
\* has completed, the location verdict on display is the one of the request
\* made for the text now in the field, and it is null, with no suggestions,
\* when that text is shorter than 2 characters.
C24_VerdictForCurrentText ==
    FormQuiet(form) =>
        IF Len(form.locationName) < 2
        THEN form.locationValid = NULL /\ form.locationSuggestions = <<>>
        ELSE form.locationValid # NULL /\ form.verdictFor = <<form.locationName>>

----------------------------------------------------------------------------
(* The list of stored requests (WeatherRequestsList) *)

\* getWeatherRequests calls of the list in flight together
MaxListFetches == 2

\* the ids of the stored requests, in the order the backend lists them
RequestIds == <<1, 2>>

\* what the search box can hold
SearchQueries == {"", "Pa"}

\* the ids GET /weather-requests answers with: every stored request without
\* a location filter (`searchQuery || undefined`), request 1 (Paris) for "Pa"
Matching(stored, q) ==
    SelectSeq(RequestIds, LAMBDA id : id \in stored /\ (q = "" \/ id = 1))

ListOutcomes(stored, q) ==
    {Resolved(<<Matching(stored, q)>>)} \cup Failures("getWeatherRequests")

\* DELETE /weather-requests/{id}: done for a stored request, or a failure
DeleteOutcomes(stored, id) ==
    (IF id \in stored THEN {Resolved(<<>>)} ELSE {})
        \cup Failures("deleteWeatherRequest")

\* fetchRequests() up to its await, called from a render whose searchQuery
\* is q
fetchRequests(l, q) ==
    [l EXCEPT !.loading = TRUE, !.error = "", !.fetches = Append(@, q)]

\* fetchRequests() after its await; shownFor: the query of the call whose
\* answer is on display
fetchRequestsSettled(l, q, out) ==
    IF out.outcome = "resolved"
    THEN [l EXCEPT !.requests = out.value[1], !.shownFor = <<q>>,
                   !.loading = FALSE]
    ELSE [l EXCEPT !.error = IF Truthy(out.error) THEN out.error[1]
                             ELSE "Failed to load weather requests",
                   !.loading = FALSE]

\* the component after its first render and its two effects: the mount
\* fetch is in flight and the 300 ms timer of the search effect is set.
\* onRefresh: whether the parent passed the callback; stored: the ids the
\* backend holds; timer, fetches: the query each was started with; del: the
\* id and the requests captured by the handleDelete in flight
MountedList(onRefresh, stored) ==
    [mounted |-> TRUE, onRefresh |-> onRefresh, stored |-> stored,
     requests |-> <<>>, shownFor |-> NULL, loading |-> TRUE, error |-> "",
     searchQuery |-> "", deleteId |-> NULL, deleting |-> FALSE,
     timer |-> <<"">>, fetches |-> <<"">>, del |-> NULL]

\* handleDelete() up to its await
handleDelete(l) ==
    IF l.deleteId = NULL \/ l.deleteId[1] = 0 THEN l
    ELSE [l EXCEPT !.deleting = TRUE,
                   !.del = <<[id |-> l.deleteId[1], requests |-> l.requests]>>]

\* handleDelete() after its await: `requests` and `deleteId` are the values
\* of the render it was called from; onRefresh() changes the key of the
\* list in the parent, which mounts the component anew
handleDeleteSettled(l, out) ==
    IF out.outcome = "resolved"
    THEN IF l.onRefresh THEN MountedList(TRUE, l.stored)
         ELSE [l EXCEPT !.requests =
                            SelectSeq(l.del[1].requests,
                                      LAMBDA id : id # l.del[1].id),
                        !.deleteId = NULL, !.deleting = FALSE, !.del = NULL]
    ELSE [l EXCEPT !.error = IF Truthy(out.error) THEN out.error[1]
                             ELSE "Failed to delete request",
                   !.deleting = FALSE, !.del = NULL]

ListFrame == UNCHANGED <<token, storage, calls, ret, page, form, geo, doc, home>>

\* onChange of the search box (not reachable while the dialog is open): the
\* effect clears the timer of the previous query and sets one for q
TypeQuery(q) ==
    /\ list.deleteId = NULL
    /\ q # list.searchQuery
    /\ list' = [list EXCEPT !.searchQuery = q, !.timer = <<q>>]
    /\ ListFrame

\* the 300 ms timer fires
QueryTimerFires ==
    /\ list.timer # NULL
    /\ Len(list.fetches) < MaxListFetches
    /\ list' = fetchRequests([list EXCEPT !.timer = NULL], list.timer[1])
    /\ ListFrame

\* the refresh button
Refresh ==
    /\ list.deleteId = NULL
    /\ Len(list.fetches) < MaxListFetches
    /\ list' = fetchRequests(list, list.searchQuery)
    /\ ListFrame

\* the answer to the i-th list request in flight arrives
ListResponds(i) ==
    /\ i \in 1..Len(list.fetches)
    /\ \E out \in ListOutcomes(list.stored, list.fetches[i]) :
         list' = fetchRequestsSettled([list EXCEPT !.fetches = Without(@, i)],
                                      list.fetches[i], out)
    /\ ListFrame

\* the Delete button of a request on display
AskDelete(id) ==
    /\ ~list.loading
    /\ list.deleteId = NULL
    /\ \E k \in 1..Len(list.requests) : list.requests[k] = id
    /\ list' = [list EXCEPT !.deleteId = <<id>>]
    /\ ListFrame

\* Cancel in the dialog
CancelDelete ==
    /\ list.deleteId # NULL
    /\ ~list.deleting
    /\ list' = [list EXCEPT !.deleteId = NULL]
    /\ ListFrame

\* the confirming button of the dialog (disabled while deleting)
ConfirmDelete ==
    /\ list.deleteId # NULL
    /\ ~list.deleting
    /\ list' = handleDelete(list)
    /\ ListFrame

\* the answer to the DELETE arrives; a request deleted is no longer stored
DeleteResponds ==
    /\ list.del # NULL
    /\ \E out \in DeleteOutcomes(list.stored, list.del[1].id) :
         list' = handleDeleteSettled(
                     [list EXCEPT !.stored = IF out.outcome = "resolved"
                                             THEN @ \ {list.del[1].id} ELSE @],
                     out)
    /\ ListFrame

InitList ==
    /\ ClientInit(Slots)
    /\ token = Str("t1")
    /\ page = NoPage
    /\ form = NoForm
    /\ geo = NoGeo
    /\ doc = NoDoc
    /\ home = NoHome
    /\ \E onRefresh \in BOOLEAN : list = MountedList(onRefresh, {1, 2})

NextList ==
    \/ \E q \in SearchQueries : TypeQuery(q)
    \/ QueryTimerFires
    \/ Refresh
    \/ \E i \in 1..MaxListFetches : ListResponds(i)
    \/ \E id \in {1, 2} : AskDelete(id)
    \/ CancelDelete
    \/ ConfirmDelete
    \/ DeleteResponds

SpecList == InitList /\ [][NextList]_vars

\* no debounce timer is pending and no list request is in flight
ListQuiet(l) == l.timer = NULL /\ l.fetches = <<>>

\* C25: once every debounce timer has fired and every list request has
\* completed (and none of them left an error), the requests on display are
\* the answer to the query now in the search box, in whatever order the
\* answers to the mount-time fetch, the debounced fetches and the manual
\* refresh arrived.
C25_ListIsForLatestQuery ==
    list.mounted /\ ListQuiet(list) /\ list.error = "" /\ list.del = NULL =>
        \/ list.shownFor = <<list.searchQuery>>
        \/ list.requests = Matching(list.stored, list.searchQuery)

\* the handleDelete in flight before a step ends in that step
DeleteSettles == list.del # NULL /\ list'.del = NULL

\* C28: a confirmed delete that succeeds takes exactly the deleted id out of
\* the list on display and closes the dialog (deleteId null); one that fails
\* leaves the list on display and deleteId as they were and sets an error;
\* either way deleting is false afterwards.
C28_DeleteFrame ==
    [][DeleteSettles =>
         /\ ~list'.deleting
         /\ IF list'.stored # list.stored
            THEN /\ list'.requests =
                        SelectSeq(list.requests, LAMBDA id : id # list.del[1].id)
                 /\ list'.deleteId = NULL
            ELSE /\ list'.requests = list.requests
                 /\ list'.deleteId = list.deleteId
                 /\ list'.error # ""]_vars

\* without the onRefresh callback: the same statement for a list whose
\* parent passed none
C28_DeleteFrameUnkeyed ==
    [][DeleteSettles /\ ~list.onRefresh =>
         /\ ~list'.deleting
         /\ IF list'.stored # list.stored
            THEN /\ list'.requests =
                        SelectSeq(list.requests, LAMBDA id : id # list.del[1].id)
                 /\ list'.deleteId = NULL
            ELSE /\ list'.requests = list.requests
                 /\ list'.deleteId = list.deleteId
                 /\ list'.error # ""]_vars

\* the part on failing deletes alone
C28_FailedDeleteFrame ==
    [][DeleteSettles /\ list'.stored = list.stored =>
         /\ ~list'.deleting
         /\ list'.requests = list.requests
         /\ list'.deleteId = list.deleteId
         /\ list'.error # ""]_vars

----------------------------------------------------------------------------
(* The weather page (Home): location search and "Use My Location" *)

\* searches and geolocation lookups of the page in progress together
MaxLookups == 2

\* the positions the platform reports to the page
HomePositions ==
    {[latitude |-> 4071280, longitude |-> -7400600],
     [latitude |-> -4, longitude |-> 6]}

\* what GET /complete answers with: a location, the current weather and a
\* forecast, which may be missing
CompleteWeatherData ==
    {[location |-> [name |-> "Paris", timezone |-> "Europe/Paris"],
      current |-> <<[of |-> "s1", timezone |-> "Europe/Paris"]>>,
      forecast |-> Str(<<"s1">>)],
     [location |-> [name |-> "Lima", timezone |-> "America/Lima"],
      current |-> <<[of |-> "s2", timezone |-> "America/Lima"]>>,
      forecast |-> NULL]}

\* what getWeatherByCoordinates resolves with: { current, forecast }, the
\* forecast possibly missing, the current weather possibly null
CoordinatesWeatherData ==
    {[current |-> <<[of |-> "g1", timezone |-> "America/New_York"]>>,
      forecast |-> Str(<<"g1">>)],
     [current |-> <<[of |-> "g2", timezone |-> "UTC"]>>, forecast |-> NULL],
     [current |-> NULL, forecast |-> Str(<<"g3">>)]}

CompleteOutcomes ==
    {Resolved(<<d>>) : d \in CompleteWeatherData}
        \cup Failures("getCompleteWeather")

\* Promise.all of the two requests: both parts, or the failure of one
CoordinatesOutcomes ==
    {Resolved(<<d>>) : d \in CoordinatesWeatherData}
        \cup Failures("getCurrentWeather") \cup Failures("getForecast")

\* data.forecast || []
ForecastOrEmpty(data) == IF data.forecast = NULL THEN <<>> ELSE data.forecast[1]

\* a lookup in progress: a search waiting for its weather, or a geolocation
\* lookup waiting for the position, then for the weather of that position
SearchLookup == [kind |-> "search", pc |-> "weather", position |-> <<>>]
PositionLookup == [kind |-> "geo", pc |-> "position", position |-> <<>>]
WeatherLookup(position) ==
    [kind |-> "geo", pc |-> "weather", position |-> <<position>>]

\* the page after its first render
MountedHome ==
    [mounted |-> TRUE, location |-> NULL, currentWeather |-> NULL,
     forecast |-> <<>>, loading |-> FALSE, error |-> "",
     useGeolocation |-> FALSE, lookups |-> <<>>]

\* fetchWeather(searchLocation) up to its await
fetchWeather(h) ==
    [h EXCEPT !.loading = TRUE, !.error = "",
              !.lookups = Append(@, SearchLookup)]

\* fetchWeather after its await
fetchWeatherSettled(h, out) ==
    IF out.outcome = "resolved"
    THEN [h EXCEPT !.location = <<out.value[1].location>>,
                   !.currentWeather = out.value[1].current,
                   !.forecast = ForecastOrEmpty(out.value[1]),
                   !.loading = FALSE]
    ELSE [h EXCEPT !.error = IF Truthy(out.error) THEN out.error[1]
                             ELSE "Unable to fetch weather. Please try again.",
                   !.loading = FALSE]

\* handleSearch(searchLocation)
handleSearch(h) == fetchWeather([h EXCEPT !.useGeolocation = FALSE])

\* the catch and finally blocks of handleGeolocation
geolocationFailed(h, message) ==
    [h EXCEPT !.error = IF message # "" THEN message
                        ELSE "Unable to fetch weather for your location",
              !.currentWeather = NULL, !.forecast = <<>>,
              !.loading = FALSE, !.useGeolocation = FALSE]

\* handleGeolocation() up to the await of getCurrentPosition(); where the
\* browser has no geolocation the promise is rejected at once and the catch
\* block runs in the same turn
handleGeolocation(h, supported) ==
    LET started == [h EXCEPT !.useGeolocation = TRUE, !.loading = TRUE,
                             !.error = ""]
        g == getCurrentPosition(supported)
    IN  IF g.outcome = "rejected" THEN geolocationFailed(started, g.message)
        ELSE [started EXCEPT !.lookups = Append(@, PositionLookup)]

\* handleGeolocation after getWeatherByCoordinates settled: reading
\* data.current.timezone of a null current weather throws into the catch
handleGeolocationSettled(h, position, out) ==
    IF out.outcome = "rejected"
    THEN geolocationFailed(h, IF Truthy(out.error) THEN out.error[1] ELSE "")
    ELSE IF out.value[1].current = NULL
    THEN geolocationFailed(h, NullTypeError)
    ELSE [h EXCEPT !.currentWeather = out.value[1].current,
                   !.forecast = ForecastOrEmpty(out.value[1]),
                   !.location =
                       <<[name |-> YourLocation(position).name, country |-> "",
                          latitude |-> position.latitude,
                          longitude |-> position.longitude,
                          timezone |-> out.value[1].current[1].timezone]>>,
                   !.loading = FALSE, !.useGeolocation = FALSE]

HomeFrame == UNCHANGED <<token, storage, calls, ret, page, form, geo, doc, list>>

\* the search form is submitted with a location
Search ==
    /\ Len(home.lookups) < MaxLookups
    /\ home' = handleSearch(home)
    /\ HomeFrame

\* the "Use My Location" button (disabled while loading)
UseMyLocation(supported) ==
    /\ ~home.loading
    /\ Len(home.lookups) < MaxLookups
    /\ home' = handleGeolocation(home, supported)
    /\ HomeFrame

\* the answer to the i-th lookup, a search, arrives
SearchResponds(i) ==
    /\ i \in 1..Len(home.lookups)
    /\ home.lookups[i].kind = "search"
    /\ \E out \in CompleteOutcomes :
         home' = fetchWeatherSettled([home EXCEPT !.lookups = Without(@, i)], out)
    /\ HomeFrame

\* the platform reports a position to the i-th lookup: the weather of the
\* position is requested
PositionFound(i, position) ==
    /\ i \in 1..Len(home.lookups)
    /\ home.lookups[i].pc = "position"
    /\ home' = [home EXCEPT !.lookups[i] = WeatherLookup(position)]
    /\ HomeFrame

\* the platform reports an error to the i-th lookup
PositionFailed(i, code) ==
    /\ i \in 1..Len(home.lookups)
    /\ home.lookups[i].pc = "position"
    /\ home' = geolocationFailed([home EXCEPT !.lookups = Without(@, i)],
                                 ErrorMessage(code))
    /\ HomeFrame

\* getWeatherByCoordinates of the i-th lookup settles
CoordinatesRespond(i) ==
    /\ i \in 1..Len(home.lookups)
    /\ home.lookups[i].kind = "geo"
    /\ home.lookups[i].pc = "weather"
    /\ \E out \in CoordinatesOutcomes :
         home' = handleGeolocationSettled(
                     [home EXCEPT !.lookups = Without(@, i)],
                     home.lookups[i].position[1], out)
    /\ HomeFrame

InitHome ==
    /\ ClientInit(Slots)
    /\ token = NULL
    /\ page = NoPage
    /\ form = NoForm
    /\ geo = NoGeo
    /\ doc = NoDoc
    /\ list = NoList
    /\ home = MountedHome

NextHome ==
    \/ Search
    \/ \E supported \in BOOLEAN : UseMyLocation(supported)
    \/ \E i \in 1..MaxLookups : SearchResponds(i)
    \/ \E i \in 1..MaxLookups : \E position \in HomePositions : PositionFound(i, position)
    \/ \E i \in 1..MaxLookups : \E code \in ErrorCodes : PositionFailed(i, code)
    \/ \E i \in 1..MaxLookups : CoordinatesRespond(i)

SpecHome == InitHome /\ [][NextHome]_vars

\* a weather request of the page is in flight
WeatherInFlight(h) == \E i \in 1..Len(h.lookups) : h.lookups[i].pc = "weather"

\* C26: loading is true whenever a weather fetch started by a search or by
\* "Use My Location" is in flight, also when one was started while the other
\* was running; and loading is false once every lookup has completed.
C26_LoadingWhileInFlight ==
    /\ WeatherInFlight(home) => home.loading
    /\ home.mounted /\ home.lookups = <<>> => ~home.loading

\* the second half alone
C26_IdleWhenDone == home.mounted /\ home.lookups = <<>> => ~home.loading

\* how handleGeolocation leaves the page when it failed
GeolocationFailure(h) ==
    /\ h.error # ""
    /\ h.currentWeather = NULL
    /\ h.forecast = <<>>
    /\ ~h.loading
    /\ ~h.useGeolocation

\* how handleGeolocation leaves the page when it got `data` for `position`
GeolocationSuccess(h, position, data) ==
    /\ h.currentWeather = data.current
    /\ h.forecast = ForecastOrEmpty(data)
    /\ h.location # NULL
    /\ h.location[1].name = YourLocation(position).name
    /\ h.location[1].timezone = data.current[1].timezone
    /\ h.error = ""

\* the i-th lookup without the others
Rest(h, i) == [h EXCEPT !.lookups = Without(@, i)]

\* C27: however a handleGeolocation in progress ends, it leaves the page as
\* stated.  If the position cannot be had (no geolocation in the browser, or
\* an error from the platform) or the weather request for it fails: an error
\* message, currentWeather null, forecast empty, loading and useGeolocation
\* false.  If it succeeds: currentWeather, forecast and location from that
\* one answer, and no error message.
C27_GeolocationOutcome ==
    home.mounted =>
        /\ ~home.loading => GeolocationFailure(handleGeolocation(home, FALSE))
        /\ \A i \in 1..Len(home.lookups) :
             /\ home.lookups[i].pc = "position" =>
                  \A code \in ErrorCodes :
                    GeolocationFailure(
                        geolocationFailed(Rest(home, i), ErrorMessage(code)))
             /\ home.lookups[i].kind = "geo" /\ home.lookups[i].pc = "weather" =>
                  \A out \in CoordinatesOutcomes :
                    LET position == home.lookups[i].position[1]
                        h == handleGeolocationSettled(Rest(home, i), position, out)
                    IN  IF out.outcome = "resolved" /\ out.value[1].current # NULL
                        THEN GeolocationSuccess(h, position, out.value[1])
                        ELSE GeolocationFailure(h)

\* the part on failures alone
C27_FailureOutcome ==
    home.mounted =>
        /\ ~home.loading => GeolocationFailure(handleGeolocation(home, FALSE))
        /\ \A i \in 1..Len(home.lookups) :
             /\ home.lookups[i].pc = "position" =>
                  \A code \in ErrorCodes :
                    GeolocationFailure(
                        geolocationFailed(Rest(home, i), ErrorMessage(code)))
             /\ home.lookups[i].kind = "geo" /\ home.lookups[i].pc = "weather" =>
                  \A out \in CoordinatesOutcomes :
                    out.outcome = "rejected" \/ out.value[1].current = NULL =>
                      GeolocationFailure(
                          handleGeolocationSettled(
                              Rest(home, i), home.lookups[i].position[1], out))

\* The latest document shows the temperature_mean of every day that has
\* one (of those other than 0 only, unless zeroToo): as the temperatureMean
\* element of the day in XML, in the fourth cell of the day's row in CSV,
\* in the fourth column of the day's row, with its unit, in Markdown.
MeanExported(zeroToo) ==
    LET ls == Lines(Content)
        days == doc.request.weather_data
        n == Len(days)
    IN  \A k \in 1..n :
          days[k].temperature_mean # <<>>
            /\ (zeroToo \/ days[k].temperature_mean[1] # 0) =>
              LET v == NumToString(days[k].temperature_mean[1])
              IN  CASE doc.format = "xml" ->
                         ls[16 + ((k - 1) * 14) + 5] =
                             "      <temperatureMean>" \o v \o "</temperatureMean>"
                    [] doc.format = "csv" ->
                         ls[Len(ls) - n + k] =
                             Flat(Join([CsvRow(days[k]) EXCEPT ![4] = <<v>>],
                                       <<",">>))
                    [] doc.format = "markdown" ->
                         ls[StatisticsHeading(ls) - 2 - n + k] =
                             Flat([MarkdownRow(days[k]) EXCEPT ![8] = v \o "°C"])
                    [] OTHER -> TRUE

\* C29: for every weather_data item that has a temperature_mean, the value
\* 0 included, the XML document has a temperatureMean element with the
\* value, the CSV row has it in the 'Temperature Mean' column and the
\* Markdown row shows it instead of 'N/A'.
C29_MeanAlwaysExported == doc.format # "none" => MeanExported(TRUE)

\* the same for every mean other than 0
C29_NonZeroMeanExported == doc.format # "none" => MeanExported(FALSE)

====
